---- MODULE Spec2Model ----
(***************************************************************************)
(* A model of the Airbnb market scraping pipeline: URL canonicalization    *)
(* (utils/url.go), the paginated listing extractor (scraper/airbnb/        *)
(* scraper.go), the driver (main.go) and the detail worker pool.           *)
(*                                                                         *)
(* Strings are sequences of one-character strings, so that Index, Cut,     *)
(* TrimSuffix and slicing are computed as Go computes them.                *)
(***************************************************************************)
EXTENDS Integers, Sequences, FiniteSets, TLC

VARIABLES
    \* canonicalization of one URL (utils/url.go)
    urlBase,        \* the URL up to its query string
    urlQuery,       \* the query string appended to it ("" or "?...")
    canon1,         \* NormalizeURL(rawURL), once computed
    canon2,         \* NormalizeURL(canon1), once computed
    upc,            \* "in", "once", "twice"; "off" outside SpecURL
    \* the configuration and the target site
    cfg,            \* config.ScraperConfig: MaxPages, PropertiesPerPage
    site,           \* location URL -> the result pages (cards) the site shows
    \* one call of Scraper.ScrapeListings (scraper/airbnb/scraper.go)
    spc,            \* position in ScrapeListings; "idle" when no call is active
    locationURL,    \* its argument
    page,           \* the loop counter
    allListings,    \* the listings appended so far
    browserPage,    \* the result page the call's browser session shows (0: none)
    scrapeRet,      \* the returned (listings, err), once spc = "done"
    pageLog,        \* history: one record per card-extraction query
    nAdvance,       \* history: next controls invoked
    stop,           \* history: why the page loop ended
    \* one call of Scraper.ScrapeDetailsWithWorkers (the detail worker pool)
    failsBefore,    \* the site: canonical URL -> attempts that fail before one succeeds
    ctxDone,        \* the context given to the call has been cancelled
    poolpc,         \* "idle", "running", "returned"
    poolUrls,       \* its argument
    tasks,          \* the work queue as seeded: the canonical URLs, in input order
    qHead,          \* the next task of the queue to hand out
    wk,             \* worker -> [st, task, attempt]
    resultsCh,      \* DetailResults sent by workers and not yet collected
    results,        \* the results map, written by the collector
    produced,       \* history: task -> DetailResults produced for it
    attempts,       \* history: task -> attempts made on it
    \* the driver (main.go)
    pc,             \* "discover", "scrape", "urls", "pool", "save", "saving", "done",
                    \* "exit", "fatal";
                    \* "off" when a component runs on its own
    locations,      \* the deduplicated location cards
    locIdx,         \* the index of the location loop
    allRawListings, \* the listings collected from the locations
    totalProperties,
    mainUrls,       \* main's urls, handed to ScrapeDetailsWithWorkers
    detailResults,  \* the map it returned
    outcomes,       \* history: per ScrapeListings call, its location and result
    \* one call of ScrapeHomepageLocations
    hpc,            \* "off", "call", "done"
    homeLinks,      \* the links of the homepage that pass the filter of the query
    homeQuery,      \* how navigation and query went: "pending", "failed",
                    \* "malformed" (a string that is no list of rows), "rows"
    homeRet,        \* what the call returned
    \* the listings table (storage)
    table,          \* url -> row
    nextId,         \* the next value of the id sequence
    now,            \* the clock of the database
    \* one call of NormalizeAndSave
    svpc,           \* "off", "call", "loop", "insert" (in InsertListing), "done"
    svInput,        \* its rawListings
    svIdx,          \* the index of its loop
    successCount,
    svRet,          \* what it returned
    upsertLog,      \* history: the InsertListing calls and their results
    \* the browser sessions of ScrapeHomepageLocations and ScrapeListings
    sessions,       \* history: per createStealthContext call, the operation that
                    \* made it and what was run on the session, in order
    \* one call of GetAnalytics or of getTopRated (services/analytics_service.go)
    anpc,           \* "off", "call", "done"
    dbListings,     \* the listings slice: what GetAllListings returns, the
                    \* argument of getTopRated
    topN,           \* the argument n of getTopRated
    anaRet,         \* what GetAnalytics returned
    topRet          \* what getTopRated returned

urlVars == <<urlBase, urlQuery, canon1, canon2, upc>>

envVars == <<cfg, site>>

scrapeVars == <<spc, locationURL, page, allListings, browserPage, scrapeRet,
                pageLog, nAdvance, stop>>

poolVars == <<failsBefore, ctxDone, poolpc, poolUrls, tasks, qHead, wk, resultsCh, results,
              produced, attempts>>

driverVars == <<pc, locations, locIdx, allRawListings, totalProperties, mainUrls,
                detailResults, outcomes>>

homeVars == <<hpc, homeLinks, homeQuery, homeRet>>

dbVars == <<table, nextId, now>>

saveVars == <<svpc, svInput, svIdx, successCount, svRet, upsertLog>>

sessVars == <<sessions>>

anVars == <<anpc, dbListings, topN, anaRet, topRet>>

vars == <<urlVars, envVars, scrapeVars, poolVars, driverVars, homeVars, dbVars,
          saveVars, sessVars, anVars>>

(***************************************************************************)
(* Bounds of the model.                                                    *)
(***************************************************************************)
\* An input URL is the concatenation of at most MaxTokens tokens of URLTokens.
MaxTokens == 4
\* cfg.MaxPages is drawn from 1..MaxPagesMax
MaxPagesMax == 3
\* cfg.PropertiesPerPage is drawn from 1..PerPageMax
PerPageMax == 2
\* a location shows 1..SitePagesMax result pages
SitePagesMax == 3
\* ScrapeDetailsWithWorkers is called with at most MaxURLs URLs
MaxURLs == 3
\* a homepage starts with at most MaxLinks freely chosen links
MaxLinks == 2
\* the table is tried with at most MaxUpserts calls of InsertListing
MaxUpserts == 4
\* NormalizeAndSave is called with at most MaxSave raw listings
MaxSave == 3
\* a call of ScrapeDetailsWithWorkers that may be cancelled has at most
\* MaxCancelURLs URLs
MaxCancelURLs == 2
\* GetAllListings returns at most MaxRows rows
MaxRows == 6
\* getTopRated is called with n in 0..MaxTopN
MaxTopN == 7

(***************************************************************************)
(* String helpers (Go's strings package on byte strings).                  *)
(***************************************************************************)
UpperLetters == <<"A","B","C","D","E","F","G","H","I","J","K","L","M",
                  "N","O","P","Q","R","S","T","U","V","W","X","Y","Z">>

LowerLetters == <<"a","b","c","d","e","f","g","h","i","j","k","l","m",
                  "n","o","p","q","r","s","t","u","v","w","x","y","z">>

Digits == {"0","1","2","3","4","5","6","7","8","9"}

IsLetter(c) == \E i \in 1..26 : c = UpperLetters[i] \/ c = LowerLetters[i]

\* strings.ToLower on one byte
LowerChar(c) ==
    IF \E i \in 1..26 : c = UpperLetters[i]
    THEN LowerLetters[CHOOSE i \in 1..26 : c = UpperLetters[i]]
    ELSE c

\* strings.ToLower
ToLower(s) == [i \in 1..Len(s) |-> LowerChar(s[i])]

\* s[from:] in Go terms, with 1-based from
Drop(s, n) == SubSeq(s, n + 1, Len(s))

\* s[:n]
Take(s, n) == SubSeq(s, 1, n)

\* strings.HasPrefix
HasPrefix(s, p) == Len(s) >= Len(p) /\ Take(s, Len(p)) = p

\* strings.HasSuffix
HasSuffix(s, p) == Len(s) >= Len(p) /\ Drop(s, Len(s) - Len(p)) = p

\* strings.Index: the 0-based offset of the first occurrence of t in s, -1 if none
Index(s, t) ==
    LET hits == {i \in 0..(Len(s) - Len(t)) : SubSeq(s, i + 1, i + Len(t)) = t}
    IN  IF hits = {} THEN -1 ELSE CHOOSE i \in hits : \A j \in hits : i <= j

\* strings.LastIndex
LastIndex(s, t) ==
    LET hits == {i \in 0..(Len(s) - Len(t)) : SubSeq(s, i + 1, i + Len(t)) = t}
    IN  IF hits = {} THEN -1 ELSE CHOOSE i \in hits : \A j \in hits : i >= j

\* strings.Count of a one-byte separator
Count(s, c) == Cardinality({i \in 1..Len(s) : s[i] = c})

\* strings.Contains
Contains(s, t) == Index(s, t) >= 0

\* strings.Cut: the text before the first sep, or all of s when sep is absent
CutBefore(s, sep) == IF Index(s, sep) < 0 THEN s ELSE Take(s, Index(s, sep))

\* strings.TrimSuffix: removes ONE occurrence of the suffix
TrimSuffix(s, suf) == IF HasSuffix(s, suf) THEN Take(s, Len(s) - Len(suf)) ELSE s

(***************************************************************************)
(* net/url.Parse, as NormalizeURL uses it (url.go line 16), on the bytes   *)
(* of URLTokens: letters, digits, ':', '/', '?', '#', '=', '&'.            *)
(***************************************************************************)
\* getScheme: [err, scheme, rest]
GetScheme(raw) ==
    LET ends == {i \in 1..Len(raw) :
                    \/ ~IsLetter(raw[i]) /\ raw[i] \notin (Digits \cup {"+", "-", "."})
                    \/ raw[i] \in (Digits \cup {"+", "-", "."}) /\ i = 1}
    IN  IF ends = {} THEN [err |-> FALSE, scheme |-> <<>>, rest |-> raw]
        ELSE LET i == CHOOSE k \in ends : \A j \in ends : k <= j
             IN  IF raw[i] = ":"
                 THEN IF i = 1
                      THEN [err |-> TRUE, scheme |-> <<>>, rest |-> <<>>]
                      ELSE [err |-> FALSE, scheme |-> Take(raw, i - 1),
                            rest |-> Drop(raw, i)]
                 ELSE [err |-> FALSE, scheme |-> <<>>, rest |-> raw]

\* validOptionalPort
ValidOptionalPort(port) ==
    \/ port = <<>>
    \/ /\ port[1] = ":"
       /\ \A i \in 2..Len(port) : port[i] \in Digits

\* parseHost without brackets and escapes: the port after the last colon is checked
HostError(host) ==
    /\ LastIndex(host, <<":">>) # -1
    /\ ~ValidOptionalPort(Drop(host, LastIndex(host, <<":">>)))

\* url.Parse: [err, Scheme, Host, Path]
ParseURL(rawURL) ==
    LET bad == [err |-> TRUE, Scheme |-> <<>>, Host |-> <<>>, Path |-> <<>>]
        \* the authority and what follows it, i the offset of the first "/"
        Authority(sch, auth0, i) ==
            IF HostError(IF i >= 0 THEN Take(auth0, i) ELSE auth0) THEN bad
            ELSE [err |-> FALSE, Scheme |-> sch,
                  Host |-> IF i >= 0 THEN Take(auth0, i) ELSE auth0,
                  Path |-> IF i >= 0 THEN Drop(auth0, i) ELSE <<>>]
        \* rest0 is what follows the scheme, without the query
        Rest(err, sch, rest0) ==
            IF err THEN bad
            ELSE IF ~HasPrefix(rest0, <<"/">>) /\ sch # <<>>
            THEN \* a rootless path after a scheme is opaque: Host and Path stay empty
                 [err |-> FALSE, Scheme |-> sch, Host |-> <<>>, Path |-> <<>>]
            ELSE IF ~HasPrefix(rest0, <<"/">>)
                    /\ Contains(CutBefore(rest0, <<"/">>), <<":">>)
            THEN bad
            ELSE IF (sch # <<>> \/ ~HasPrefix(rest0, <<"/", "/", "/">>))
                    /\ HasPrefix(rest0, <<"/", "/">>)
            THEN Authority(sch, Drop(rest0, 2), Index(Drop(rest0, 2), <<"/">>))
            ELSE [err |-> FALSE, Scheme |-> sch, Host |-> <<>>, Path |-> rest0]
        Split(gs) ==
            Rest(gs.err, ToLower(gs.scheme),
                 IF HasSuffix(gs.rest, <<"?">>) /\ Count(gs.rest, "?") = 1
                 THEN Take(gs.rest, Len(gs.rest) - 1)
                 ELSE CutBefore(gs.rest, <<"?">>))
    IN  Split(GetScheme(CutBefore(rawURL, <<"#">>)))

(***************************************************************************)
(* utils/url.go                                                            *)
(***************************************************************************)
RoomsMarker == <<"/", "r", "o", "o", "m", "s", "/">>

\* a fallback that cuts at the first "?" of the whole string
extractRoomURLAnyQuery(rawURL) ==
    LET roomsIndex == Index(rawURL, RoomsMarker)
    IN  IF roomsIndex = -1 THEN rawURL
        ELSE LET queryIndex == Index(rawURL, <<"?">>)
             IN  IF queryIndex = -1 THEN rawURL
                 ELSE Take(rawURL, queryIndex)

\* extractRoomURL
extractRoomURL(rawURL) ==
    LET roomsIndex == Index(rawURL, RoomsMarker)
    IN  IF roomsIndex = -1 THEN rawURL
        ELSE LET queryIndex == Index(Drop(rawURL, roomsIndex), <<"?">>)
             IN  IF queryIndex = -1 THEN rawURL
                 ELSE Take(rawURL, roomsIndex + queryIndex)

\* A NormalizeURL that keeps the query string in the result.
NormalizeURLKeepQuery(rawURL) ==
    IF rawURL = <<>> THEN <<>>
    ELSE LET Join(p) ==
                 IF p.err THEN extractRoomURL(rawURL)
                 ELSE TrimSuffix(p.Scheme \o <<":", "/", "/">> \o p.Host \o p.Path
                                    \o (IF Contains(rawURL, <<"?">>)
                                        THEN Drop(rawURL, Index(rawURL, <<"?">>))
                                        ELSE <<>>),
                                 <<"/">>)
         IN  Join(ParseURL(rawURL))

\* NormalizeURL
NormalizeURL(rawURL) ==
    IF rawURL = <<>> THEN <<>>
    ELSE LET Join(parsedURL) ==
                 IF parsedURL.err THEN extractRoomURL(rawURL)
                 ELSE TrimSuffix(parsedURL.Scheme \o <<":", "/", "/">>
                                    \o parsedURL.Host \o parsedURL.Path,
                                 <<"/">>)
         IN  Join(ParseURL(rawURL))

(***************************************************************************)
(* Canonicalizing one URL, and canonicalizing the result again.            *)
(***************************************************************************)
\* The pieces input URLs are built from.
TokScheme == <<"h", "t", "t", "p", "s", ":">>
TokHost   == <<"/", "/", "x">>
TokSlash  == <<"/">>
TokRooms  == RoomsMarker
TokOne    == <<"1">>
TokQuery  == <<"?">>
TokColon  == <<":">>
TokHash   == <<"#">>
TokUpper  == <<"H">>

URLTokens == {TokScheme, TokHost, TokSlash, TokRooms, TokOne, TokQuery,
              TokColon, TokHash, TokUpper}

RECURSIVE TokenStrings(_)
\* every concatenation of at most n tokens
TokenStrings(n) ==
    IF n = 0 THEN {<<>>}
    ELSE LET shorter == TokenStrings(n - 1)
         IN  shorter \cup {s \o t : s \in shorter, t \in URLTokens}

URLInputs == TokenStrings(MaxTokens)

\* "?a=1&b=2" and no query at all (a bare "?" comes with the tokens)
QueryInputs == {<<>>, <<"?", "a", "=", "1", "&", "b", "=", "2">>}

rawURL == urlBase \o urlQuery

URLIdle ==
    /\ urlBase = <<>>
    /\ urlQuery = <<>>
    /\ canon1 = <<>>
    /\ canon2 = <<>>
    /\ upc = "off"

(***************************************************************************)
(* The target site: what a result page's card query returns.               *)
(***************************************************************************)
\* listing URLs on the site
URLRoom1      == TokScheme \o TokHost \o TokRooms \o TokOne
URLRoom1Query == URLRoom1 \o <<"?", "a", "=", "1">>
URLRoom2      == TokScheme \o TokHost \o TokRooms \o <<"2">>
URLRoom3      == TokScheme \o TokHost \o TokRooms \o <<"3">>
\* room 3 under a link that ends in two slashes
URLRoom3Slashes == URLRoom3 \o <<"/", "/">>

\* the rows of the card query (scraper.go lines 91-123), before parsing
CardA == [title |-> <<"A">>, price |-> <<"$", "1">>, location |-> <<"P">>,
          rating |-> <<"4", ".", "9">>, url |-> URLRoom1]
\* the same room as CardA, seen with a query string and without a rating
CardB == [title |-> <<" ", "B">>, price |-> <<"$", "2">>, location |-> <<"P">>,
          rating |-> <<>>, url |-> URLRoom1Query]
CardC == [title |-> <<"C">>, price |-> <<>>, location |-> <<"T">>,
          rating |-> <<"N", "e", "w">>, url |-> URLRoom2]
\* a card whose title selectors matched nothing but white space
CardNoTitle == [title |-> <<" ">>, price |-> <<"$", "3">>, location |-> <<"T">>,
                rating |-> <<>>, url |-> URLRoom3]
\* room 3, linked with two trailing slashes
CardSlashes == [title |-> <<"E">>, price |-> <<"$", "5">>, location |-> <<"S">>,
                rating |-> <<>>, url |-> URLRoom3Slashes]
\* a card without an anchor
CardNoURL == [title |-> <<"D">>, price |-> <<"$", "4">>, location |-> <<"T">>,
              rating |-> <<>>, url |-> <<>>]

\* document.querySelectorAll(...).slice(0, 20)
CardCap == 20

\* a result page of 21 cards: cards with a title and a URL at places 2, 20 and
\* 21, cards without a title elsewhere
PageOfTwentyOne ==
    [k \in 1..(CardCap + 1) |->
        IF k = 2 THEN CardC
        ELSE IF k = CardCap THEN CardB
        ELSE IF k = CardCap + 1 THEN CardA
        ELSE CardNoTitle]

PageOptions == { <<CardA, CardNoTitle, CardB, CardC>>,
                 <<CardC, CardNoURL>>,
                 <<CardB>>,
                 <<>>,
                 PageOfTwentyOne }

RECURSIVE SeqsUpTo(_, _)
\* the sequences of 1..n members of S
SeqsUpTo(S, n) ==
    IF n = 0 THEN {}
    ELSE {<<x>> : x \in S}
            \cup {Append(q, x) : q \in SeqsUpTo(S, n - 1), x \in S}

\* a location's result pages
SiteOptions == SeqsUpTo(PageOptions, SitePagesMax)

LocationURLs == {"L1", "L2", "L3"}

\* max_workers and the retries of the documented configuration
DefaultWorkers == 3
DefaultRetries == 3

ScraperConfigs == [MaxPages : 1..MaxPagesMax, PropertiesPerPage : 1..PerPageMax,
                   WorkerCount : {DefaultWorkers}, MaxRetries : {DefaultRetries}]

EnvIdle ==
    /\ cfg = [MaxPages |-> 1, PropertiesPerPage |-> 1,
              WorkerCount |-> DefaultWorkers, MaxRetries |-> DefaultRetries]
    /\ site = [l \in LocationURLs |-> <<>>]

(***************************************************************************)
(* Scraper.parseListingsJSON and the card query.                           *)
(***************************************************************************)
\* utils.CleanText: surrounding white space removed
RECURSIVE CleanText(_)
CleanText(s) ==
    IF s = <<>> THEN s
    ELSE IF s[1] = " " THEN CleanText(Tail(s))
    ELSE IF s[Len(s)] = " " THEN CleanText(Take(s, Len(s) - 1))
    ELSE s

\* the rows the card query returns on result page b of location loc
CardQuery(loc, b) ==
    LET cards == site[loc][b]
    IN  IF Len(cards) > CardCap THEN Take(cards, CardCap) ELSE cards

\* models.RawListing from one row
ToRawListing(raw) ==
    [Title |-> CleanText(raw.title), Price |-> CleanText(raw.price),
     Location |-> CleanText(raw.location), Rating |-> CleanText(raw.rating),
     URL |-> raw.url, Bedrooms |-> 0, Bathrooms |-> 0, Guests |-> 0]

\* a loop that keeps every row
KeepAll(rows) == [i \in 1..Len(rows) |-> ToRawListing(rows[i])]

RECURSIVE KeepValid(_)
\* the loop of parseListingsJSON: rows with a title and a URL, in order
KeepValid(rows) ==
    IF rows = <<>> THEN <<>>
    ELSE LET listing == ToRawListing(rows[1])
         IN  IF listing.Title # <<>> /\ listing.URL # <<>>
             THEN <<listing>> \o KeepValid(Tail(rows))
             ELSE KeepValid(Tail(rows))

\* parseListingsJSON
parseListingsJSON(rows) == IF rows = <<>> THEN <<>> ELSE KeepValid(rows)

\* a truncation that drops nothing
LimitNone(listings, n) == listings

\* listings[:PropertiesPerPage] when there are more
Limit(listings, n) == IF Len(listings) > n THEN Take(listings, n) ELSE listings

\* an append that forgets the earlier pages
ReplaceListings(all, listings) == listings

\* allListings = append(allListings, listings...)
AppendListings(all, listings) == all \o listings

\* an extraction that cuts the rows to PropertiesPerPage before it drops the
\* rows without a title or a URL
PageListingsCutFirst(loc, b) ==
    parseListingsJSON(Limit(CardQuery(loc, b), cfg.PropertiesPerPage))

\* what one successful extraction of result page b contributes
PageListings(loc, b) ==
    Limit(parseListingsJSON(CardQuery(loc, b)), cfg.PropertiesPerPage)

\* a check that always reports a usable next control
HasNextAlways(loc, b) == TRUE

\* the next control is there and not disabled
HasNext(loc, b) == b < Len(site[loc])

(***************************************************************************)
(* Scraper.ScrapeListings, one action per chromedp.Run.                    *)
(***************************************************************************)
NilErr == "nil"
ErrFirstPage == "failed to load first page"

(***************************************************************************)
(* Scraper.createStealthContext and removeWebdriverProperty: the browser   *)
(* sessions (scraper.go lines 30-58).                                      *)
(***************************************************************************)
\* no session has been made
SessIdle == sessions = <<>>

\* a scraper that keeps one session for all its operations
OpenSessionShared(ss, op) ==
    IF ss = <<>> THEN <<[op |-> op, events |-> <<>>]>> ELSE ss

\* createStealthContext: a new allocator and a new page context (lines 30-46)
OpenSession(ss, op) == Append(ss, [op |-> op, events |-> <<>>])

\* a first Run that removes the marker after the page has loaded
FirstRunMarkerLast == <<"navigate", "marker">>

\* the actions of the first Run of a session, in order: removeWebdriverProperty,
\* then chromedp.Navigate (scraper.go lines 74-76, homepage_scraper.go 26-28)
FirstRun == <<"marker", "navigate">>

\* how far a failing first Run may get: the browser does not start, the
\* marker action fails, the navigation or a later action fails
FailedFirstRuns == {SubSeq(FirstRun, 1, n) : n \in 0..Len(FirstRun)}

\* the actions evs are run on the session of the current operation
Ran(ss, evs) == [ss EXCEPT ![Len(ss)].events = @ \o evs]

\* a cancel that leaves the browser process running
CancelPageOnly == <<"cancelCtx">>

\* the deferred cancel: cancelCtx(), then cancelAlloc() (lines 42-45)
Cancel == <<"cancelCtx", "cancelAlloc">>

\* the session of the current operation after the deferred cancel
Released(ss) == Ran(ss, Cancel)

ScrapeIdle ==
    /\ spc = "idle"
    /\ locationURL = ""
    /\ page = 0
    /\ allListings = <<>>
    /\ browserPage = 0
    /\ scrapeRet = [listings |-> <<>>, err |-> NilErr]
    /\ pageLog = <<>>
    /\ nAdvance = 0
    /\ stop = "none"

\* the state at the call of ScrapeListings(ctx, loc)
ScrapeCalled(loc) ==
    /\ sessions' = OpenSession(sessions, "listings")
    /\ spc' = "load"
    /\ locationURL' = loc
    /\ page' = 0
    /\ allListings' = <<>>
    /\ browserPage' = 0
    /\ scrapeRet' = [listings |-> <<>>, err |-> NilErr]
    /\ pageLog' = <<>>
    /\ nAdvance' = 0
    /\ stop' = "none"

\* a loop end that loses the listings
LoopEndsEmpty(listings, why) ==
    /\ spc' = "done"
    /\ scrapeRet' = [listings |-> <<>>, err |-> NilErr]
    /\ stop' = why
    /\ sessions' = Released(sessions)

\* break, or the loop condition failing: the listings so far, no error
LoopEnds(listings, why) ==
    /\ spc' = "done"
    /\ scrapeRet' = [listings |-> listings, err |-> NilErr]
    /\ stop' = why
    /\ sessions' = Released(sessions)

\* a first-page failure that is returned as an empty result without an error
FirstPageFailureSwallowed == [listings |-> <<>>, err |-> NilErr]

\* return nil, fmt.Errorf("failed to load first page: %w", err) (lines 81-83)
FirstPageFailure == [listings |-> <<>>, err |-> ErrFirstPage]

\* navigate to the location and wait for the card container (lines 72-83)
SL_LoadFirstPage ==
    /\ spc = "load"
    /\ \/ /\ spc' = "extract"
          /\ page' = 1
          /\ browserPage' = 1
          /\ sessions' = Ran(sessions, FirstRun)
          /\ UNCHANGED <<scrapeRet, stop>>
       \/ \E ran \in FailedFirstRuns :
             /\ spc' = "done"
             /\ scrapeRet' = FirstPageFailure
             /\ stop' = "loaderr"
             /\ sessions' = Released(Ran(sessions, ran))
             /\ UNCHANGED <<page, browserPage>>
       \/ \* the container never becomes visible: browserCtx (lines 30-46, 64)
          \* has no deadline, WaitVisible does not return
          /\ spc' = "blocked"
          /\ sessions' = Ran(sessions, FirstRun)
          /\ UNCHANGED <<page, browserPage, scrapeRet, stop>>
    /\ UNCHANGED <<locationURL, allListings, pageLog, nAdvance>>
    /\ UNCHANGED <<anVars, urlVars, envVars, homeVars, dbVars, saveVars, poolVars, driverVars>>

\* a card query whose failure ends the call with an error
SL_ExtractPageAbort ==
    /\ spc = "extract"
    /\ \/ /\ pageLog' = Append(pageLog, [page |-> page, browser |-> browserPage,
                                         ok |-> FALSE, listings |-> <<>>])
          /\ UNCHANGED <<allListings, page>>
          /\ spc' = "done"
          /\ scrapeRet' = [listings |-> <<>>, err |-> "failed to extract listings"]
          /\ stop' = "extracterr"
          /\ sessions' = Released(sessions)
       \/ LET listings == PageListings(locationURL, browserPage)
          IN  /\ pageLog' = Append(pageLog, [page |-> page, browser |-> browserPage,
                                             ok |-> TRUE, listings |-> listings])
              /\ allListings' = AppendListings(allListings, listings)
              /\ IF page < cfg.MaxPages
                 THEN spc' = "check" /\ UNCHANGED <<page, scrapeRet, stop, sessions>>
                 ELSE LoopEnds(AppendListings(allListings, listings), "maxpages")
                      /\ UNCHANGED page
    /\ UNCHANGED <<locationURL, browserPage, nAdvance>>
    /\ UNCHANGED <<anVars, urlVars, envVars, homeVars, dbVars, saveVars, poolVars, driverVars>>

\* the card query of one loop iteration (lines 86-142)
SL_ExtractPage ==
    /\ spc = "extract"
    /\ \/ \* the query fails: logged, continue
          /\ pageLog' = Append(pageLog, [page |-> page, browser |-> browserPage,
                                         ok |-> FALSE, listings |-> <<>>])
          /\ UNCHANGED allListings
          /\ IF page + 1 <= cfg.MaxPages
             THEN page' = page + 1 /\ UNCHANGED <<spc, scrapeRet, stop, sessions>>
             ELSE LoopEnds(allListings, "maxpages") /\ UNCHANGED page
       \/ \* the query succeeds
          LET listings == PageListings(locationURL, browserPage)
          IN  /\ pageLog' = Append(pageLog, [page |-> page, browser |-> browserPage,
                                             ok |-> TRUE, listings |-> listings])
              /\ allListings' = AppendListings(allListings, listings)
              /\ IF page < cfg.MaxPages
                 THEN spc' = "check" /\ UNCHANGED <<page, scrapeRet, stop, sessions>>
                 ELSE LoopEnds(AppendListings(allListings, listings), "maxpages")
                      /\ UNCHANGED page
    /\ UNCHANGED <<locationURL, browserPage, nAdvance>>
    /\ UNCHANGED <<anVars, urlVars, envVars, homeVars, dbVars, saveVars, poolVars, driverVars>>

\* looking for the next control (lines 144-168)
SL_CheckNext ==
    /\ spc = "check"
    /\ \/ LoopEnds(allListings, "checkerr")
       \/ /\ ~HasNext(locationURL, browserPage)
          /\ LoopEnds(allListings, "nonext")
       \/ /\ HasNext(locationURL, browserPage)
          /\ spc' = "click"
          /\ UNCHANGED <<scrapeRet, stop, sessions>>
    /\ UNCHANGED <<locationURL, page, allListings, browserPage, pageLog, nAdvance>>
    /\ UNCHANGED <<anVars, urlVars, envVars, homeVars, dbVars, saveVars, poolVars, driverVars>>

\* clicking it, by the first selector or the alternative (lines 170-187)
SL_ClickNext ==
    /\ spc = "click"
    /\ \/ /\ spc' = "wait"
          /\ browserPage' = browserPage + 1
          /\ nAdvance' = nAdvance + 1
          /\ sessions' = Ran(sessions, <<"click">>)
          /\ UNCHANGED <<scrapeRet, stop>>
       \/ /\ LoopEnds(allListings, "clickerr")
          /\ UNCHANGED <<browserPage, nAdvance>>
    /\ UNCHANGED <<locationURL, page, allListings, pageLog>>
    /\ UNCHANGED <<anVars, urlVars, envVars, homeVars, dbVars, saveVars, poolVars, driverVars>>

\* waiting for the card container of the new page (lines 189-199)
SL_WaitNextPage ==
    /\ spc = "wait"
    /\ \/ /\ spc' = "extract"
          /\ page' = page + 1
          /\ UNCHANGED <<scrapeRet, stop, sessions>>
       \/ /\ LoopEnds(allListings, "waiterr")
          /\ UNCHANGED page
       \/ \* the container never reappears: WaitVisible does not return
          /\ spc' = "blocked"
          /\ UNCHANGED <<page, scrapeRet, stop, sessions>>
    /\ UNCHANGED <<locationURL, allListings, browserPage, pageLog, nAdvance>>
    /\ UNCHANGED <<anVars, urlVars, envVars, homeVars, dbVars, saveVars, poolVars, driverVars>>

ScrapeListings ==
    \/ SL_LoadFirstPage
    \/ SL_ExtractPage
    \/ SL_CheckNext
    \/ SL_ClickNext
    \/ SL_WaitNextPage


(***************************************************************************)
(* Scraper.ScrapeDetailsWithWorkers: the detail worker pool.  Workers take *)
(* tasks from a shared queue seeded with the canonical input URLs, retry a *)
(* failing URL up to MaxRetries attempts, and send one DetailResult per    *)
(* task to the collector, which alone writes the results map.              *)
(***************************************************************************)
Workers == 1..cfg.WorkerCount

ErrDetail == "detail fetch failed"
ErrCancelled == "context canceled"

\* the counts the detail page of a listing shows
DetailPage(url) ==
    IF url = URLRoom1 THEN [Bedrooms |-> 2, Bathrooms |-> 1, Guests |-> 4]
    ELSE IF url = URLRoom2 THEN [Bedrooms |-> 1, Bathrooms |-> 1, Guests |-> 2]
    ELSE [Bedrooms |-> 3, Bathrooms |-> 2, Guests |-> 6]

\* the URLs a call may be given
PoolInputURLs == {URLRoom1, URLRoom1Query, URLRoom2}

\* the URLs detail pages are fetched by
DetailURLs == {NormalizeURL(u) : u \in PoolInputURLs \cup {URLRoom3}}

EmptyMap == [u \in {} |-> NilErr]

IdleWorker == [st |-> "idle", task |-> 0, attempt |-> 0]

\* no call of ScrapeDetailsWithWorkers has been made
PoolQuiet ==
    /\ ctxDone = FALSE
    /\ poolpc = "idle"
    /\ poolUrls = <<>>
    /\ tasks = <<>>
    /\ qHead = 1
    /\ wk = [w \in {} |-> IdleWorker]
    /\ resultsCh = <<>>
    /\ results = EmptyMap
    /\ produced = <<>>
    /\ attempts = <<>>

PoolIdle ==
    /\ failsBefore = [u \in DetailURLs |-> 0]
    /\ PoolQuiet

\* a queue seeded with the URLs as given
SeedRaw(urls) == urls

\* the queue is seeded with every input URL, canonicalized once
SeedQueue(urls) == [i \in 1..Len(urls) |-> NormalizeURL(urls[i])]

\* the state at the call of ScrapeDetailsWithWorkers(ctx, urls)
PoolCalled(urls) ==
    /\ poolpc' = "running"
    /\ poolUrls' = urls
    /\ tasks' = SeedQueue(urls)
    /\ qHead' = 1
    /\ wk' = [w \in Workers |-> IdleWorker]
    /\ resultsCh' = <<>>
    /\ results' = EmptyMap
    /\ produced' = [i \in 1..Len(urls) |-> 0]
    /\ attempts' = [i \in 1..Len(urls) |-> 0]

\* a DetailResult read from a session the workers share: the counts are those of
\* the page the last navigation went to, the task most recently taken
SuccessResultSharedSession(url) ==
    [URL |-> url, Bedrooms |-> DetailPage(tasks[qHead - 1]).Bedrooms,
     Bathrooms |-> DetailPage(tasks[qHead - 1]).Bathrooms,
     Guests |-> DetailPage(tasks[qHead - 1]).Guests,
     Error |-> NilErr]

\* the DetailResult of an attempt that succeeds: the counts of the URL's page,
\* read in the worker's own session
SuccessResult(url) ==
    [URL |-> url, Bedrooms |-> DetailPage(url).Bedrooms,
     Bathrooms |-> DetailPage(url).Bathrooms, Guests |-> DetailPage(url).Guests,
     Error |-> NilErr]

\* a failure recorded without its error
FailureResultNoError(url) ==
    [URL |-> url, Bedrooms |-> 0, Bathrooms |-> 0, Guests |-> 0, Error |-> NilErr]

FailureResult(url) ==
    [URL |-> url, Bedrooms |-> 0, Bathrooms |-> 0, Guests |-> 0, Error |-> ErrDetail]

\* the task of a cancelled call: its error, zero counts
CancelledResult(url) ==
    [URL |-> url, Bedrooms |-> 0, Bathrooms |-> 0, Guests |-> 0, Error |-> ErrCancelled]

\* a retry loop that does not look at the context
CancelledIgnored == FALSE

\* the retry loop looks at the context before each attempt
Cancelled == ctxDone

\* a worker that gives up at the first failure
MayRetryNever(attempt) == FALSE

\* another attempt is allowed after a failed one
MayRetry(attempt) == attempt < cfg.MaxRetries

\* the number of failing attempts a URL has before it loads
FailuresOf(url) == IF url \in DOMAIN failsBefore THEN failsBefore[url] ELSE 0

\* a worker that writes its DetailResult into the results map itself
EmitToMap(r) ==
    /\ results' = [u \in DOMAIN results \cup {r.URL} |-> IF u = r.URL THEN r ELSE results[u]]
    /\ UNCHANGED resultsCh

\* a worker sends its DetailResult to the collector and leaves the map alone
Emit(r) ==
    /\ resultsCh' = Append(resultsCh, r)
    /\ UNCHANGED results

\* a worker takes the next task of the queue
W_Take(w) ==
    /\ poolpc = "running"
    /\ wk[w].st = "idle"
    /\ qHead <= Len(tasks)
    /\ wk' = [wk EXCEPT ![w] = [st |-> "run", task |-> qHead, attempt |-> 1]]
    /\ qHead' = qHead + 1
    /\ UNCHANGED <<failsBefore, ctxDone, poolpc, poolUrls, tasks, resultsCh, results, produced,
                   attempts>>
    /\ UNCHANGED <<anVars, urlVars, envVars, sessVars, homeVars, dbVars, saveVars, scrapeVars, driverVars>>

\* one turn of the retry loop: with a cancelled context no attempt is made and
\* the task ends with the context's error; otherwise one attempt: navigate,
\* wait for the detail container, query the counts
W_Attempt(w) ==
    /\ poolpc = "running"
    /\ wk[w].st = "run"
    /\ LET url == tasks[wk[w].task]
       IN  IF Cancelled
           THEN /\ Emit(CancelledResult(url))
                /\ produced' = [produced EXCEPT ![wk[w].task] = @ + 1]
                /\ wk' = [wk EXCEPT ![w] = IdleWorker]
                /\ UNCHANGED attempts
           ELSE /\ attempts' = [attempts EXCEPT ![wk[w].task] = @ + 1]
                /\ \/ \* the attempt succeeds
                      /\ wk[w].attempt > FailuresOf(url)
                      /\ Emit(SuccessResult(url))
                      /\ produced' = [produced EXCEPT ![wk[w].task] = @ + 1]
                      /\ wk' = [wk EXCEPT ![w] = IdleWorker]
                   \/ \* it fails and is retried by the same worker
                      /\ wk[w].attempt <= FailuresOf(url)
                      /\ MayRetry(wk[w].attempt)
                      /\ wk' = [wk EXCEPT ![w].attempt = @ + 1]
                      /\ UNCHANGED <<resultsCh, results, produced>>
                   \/ \* it fails for the last time: the failure is the task's result
                      /\ wk[w].attempt <= FailuresOf(url)
                      /\ ~MayRetry(wk[w].attempt)
                      /\ Emit(FailureResult(url))
                      /\ produced' = [produced EXCEPT ![wk[w].task] = @ + 1]
                      /\ wk' = [wk EXCEPT ![w] = IdleWorker]
    /\ UNCHANGED <<failsBefore, ctxDone, poolpc, poolUrls, tasks, qHead>>
    /\ UNCHANGED <<anVars, urlVars, envVars, sessVars, homeVars, dbVars, saveVars, scrapeVars, driverVars>>

\* results[r.URL] = r
PutResult(m, r) == [u \in DOMAIN m \cup {r.URL} |-> IF u = r.URL THEN r ELSE m[u]]

\* the collector receives one DetailResult and writes it to the map
Collect ==
    /\ poolpc = "running"
    /\ resultsCh # <<>>
    /\ results' = PutResult(results, Head(resultsCh))
    /\ resultsCh' = Tail(resultsCh)
    /\ UNCHANGED <<failsBefore, ctxDone, poolpc, poolUrls, tasks, qHead, wk, produced, attempts>>
    /\ UNCHANGED <<anVars, urlVars, envVars, sessVars, homeVars, dbVars, saveVars, scrapeVars, driverVars>>

\* a worker is done once it is idle and the queue is exhausted
WorkerDone(w) == wk[w].st = "idle" /\ qHead > Len(tasks)

\* the pool is quiescent: every worker is done, every result is collected
PoolJoined ==
    /\ \A w \in DOMAIN wk : WorkerDone(w)
    /\ resultsCh = <<>>

\* the call returns the map
PoolReturn ==
    /\ poolpc = "running"
    /\ PoolJoined
    /\ poolpc' = "returned"
    /\ UNCHANGED <<failsBefore, ctxDone, poolUrls, tasks, qHead, wk, resultsCh, results, produced,
                   attempts>>
    /\ UNCHANGED <<anVars, urlVars, envVars, sessVars, homeVars, dbVars, saveVars, scrapeVars, driverVars>>

ScrapeDetailsWithWorkers ==
    \/ \E w \in Workers : W_Take(w)
    \/ \E w \in Workers : W_Attempt(w)
    \/ Collect
    \/ PoolReturn

\* the caller's context is cancelled while the call runs
CtxCancel ==
    /\ poolpc = "running"
    /\ ~ctxDone
    /\ ctxDone' = TRUE
    /\ UNCHANGED <<failsBefore, poolpc, poolUrls, tasks, qHead, wk, resultsCh, results,
                   produced, attempts>>
    /\ UNCHANGED <<anVars, urlVars, envVars, sessVars, homeVars, dbVars, saveVars, scrapeVars, driverVars>>

(***************************************************************************)
(* Scraper.ScrapeHomepageLocations (homepage_scraper.go).                  *)
(***************************************************************************)
\* a loop that keeps every row
KeepEveryRow(rows, seen) ==
    [i \in 1..Len(rows) |-> [Name |-> rows[i].name, URL |-> rows[i].url]]

RECURSIVE DedupByURL(_, _)
\* the loop over rawLocations: the first row of each URL, in encounter order
DedupByURL(rows, seen) ==
    IF rows = <<>> THEN <<>>
    ELSE IF rows[1].url \in seen THEN DedupByURL(Tail(rows), seen)
    ELSE <<[Name |-> rows[1].name, URL |-> rows[1].url]>>
            \o DedupByURL(Tail(rows), seen \cup {rows[1].url})

\* the rows the homepage query may return
RowParis      == [name |-> "Paris", url |-> "L1"]
RowParisAgain == [name |-> "Paris, France", url |-> "L1"]
RowTokyo      == [name |-> "Tokyo", url |-> "L2"]
RowSydney     == [name |-> "Sydney", url |-> "L3"]

HomepageRows == { <<>>,
                  <<RowParis, RowParisAgain>>,
                  <<RowTokyo, RowParis, RowTokyo>>,
                  <<RowParis, RowTokyo, RowParisAgain, RowSydney>> }

\* the query keeps the first LocationCap links (slice(0, 20), line 50)
LocationCap == 20

LocationQuery(links) ==
    IF Len(links) > LocationCap THEN SubSeq(links, 1, LocationCap) ELSE links

ErrHomepage == "failed to scrape homepage"
ErrHomepageJSON == "failed to parse locations JSON"

\* a call that refuses a homepage without locations
ReturnLocationsOrError(locs) ==
    [locations |-> locs, err |-> IF locs = <<>> THEN ErrHomepage ELSE NilErr]

\* return locations, nil: whatever the number of locations (line 88)
ReturnLocations(locs) == [locations |-> locs, err |-> NilErr]

HomeIdle ==
    /\ hpc = "off"
    /\ homeLinks = <<>>
    /\ homeQuery = "pending"
    /\ homeRet = [locations |-> <<>>, err |-> NilErr]

\* the call: navigation and query (lines 26-57), parsing (59-67), the loop (69-88)
ScrapeHomepageLocations ==
    /\ hpc = "call"
    /\ \/ \E ran \in FailedFirstRuns :
             /\ homeQuery' = "failed"
             /\ homeRet' = [locations |-> <<>>, err |-> ErrHomepage]
             /\ sessions' = Released(Ran(sessions, ran))
       \/ /\ homeQuery' = "malformed"
          /\ homeRet' = [locations |-> <<>>, err |-> ErrHomepageJSON]
          /\ sessions' = Released(Ran(sessions, FirstRun))
       \/ /\ homeQuery' = "rows"
          /\ homeRet' = ReturnLocations(DedupByURL(LocationQuery(homeLinks), {}))
          /\ sessions' = Released(Ran(sessions, FirstRun))
    /\ hpc' = "done"
    /\ UNCHANGED homeLinks
    /\ UNCHANGED <<anVars, urlVars, envVars, scrapeVars, poolVars, driverVars, dbVars, saveVars>>

\* k links to one location
Pad(k) == [i \in 1..k |-> RowParisAgain]

\* the homepages: up to MaxLinks links, then none or about LocationCap links to
\* one location, then none or one link more
HomeLinkInputs ==
    { head \o Pad(k) \o tail :
        head \in {<<>>} \cup SeqsUpTo({RowParis, RowParisAgain, RowTokyo, RowSydney},
                                      MaxLinks),
        k \in {0, LocationCap - 2, LocationCap - 1, LocationCap},
        tail \in {<<>>, <<RowSydney>>, <<RowTokyo>>} }

(***************************************************************************)
(* The listings table (storage) and ListingService.NormalizeAndSave.       *)
(***************************************************************************)
\* an empty table, a fresh id sequence (schema.go lines 5-18)
DBIdle ==
    /\ table = {}
    /\ nextId = 1
    /\ now = 0

\* the row of a URL, as a set of at most one row when url is unique
RowsOf(tbl, url) == {r \in tbl : r.url = url}

\* the row a listing is stored as
RowFrom(listing, id, created, updated) ==
    [id |-> id, title |-> listing.Title, price |-> listing.Price,
     location |-> listing.Location, rating |-> listing.Rating, url |-> listing.URL,
     bedrooms |-> listing.Bedrooms, bathrooms |-> listing.Bathrooms,
     guests |-> listing.Guests, created_at |-> created, updated_at |-> updated]

\* an INSERT without the conflict clause on a table without the unique index
InsertAlways(tbl, listing, id, t) == tbl \cup {RowFrom(listing, id, t, t)}

\* INSERT ... ON CONFLICT (url) DO UPDATE SET ... (part_004 lines 57-70): a row
\* of the URL keeps its id and created_at and takes the other columns
Upsert(tbl, listing, id, t) ==
    IF RowsOf(tbl, listing.URL) = {}
    THEN tbl \cup {RowFrom(listing, id, t, t)}
    ELSE {IF r.url = listing.URL THEN RowFrom(listing, r.id, r.created_at, t) ELSE r :
            r \in tbl}

\* a statement that returns the value drawn from the id sequence
ReturnedIdOfSequence(tbl, listing) == nextId

\* RETURNING id
ReturnedId(tbl, listing) == (CHOOSE r \in tbl : r.url = listing.URL).id

ErrInsert == "failed to insert listing"

\* DB.InsertListing(&listing): the statement succeeds (ok) or the query
\* returns an error and the table is left as it was
InsertListing(listing, ok) ==
    /\ now' = now + 1
    /\ IF ok
       THEN /\ table' = Upsert(table, listing, nextId, now + 1)
            /\ nextId' = nextId + 1
            /\ upsertLog' = Append(upsertLog,
                   [listing |-> listing, err |-> NilErr,
                    id |-> ReturnedId(Upsert(table, listing, nextId, now + 1), listing)])
       ELSE /\ UNCHANGED <<table, nextId>>
            /\ upsertLog' = Append(upsertLog,
                   [listing |-> listing, err |-> ErrInsert, id |-> 0])

\* the records the gateway is tried with
StoredA  == [Title |-> <<"A">>, Price |-> 100, Location |-> <<"P">>, Rating |-> 490,
             URL |-> URLRoom1, Bedrooms |-> 2, Bathrooms |-> 1, Guests |-> 4]
StoredA2 == [Title |-> <<"B">>, Price |-> 200, Location |-> <<"P">>, Rating |-> 0,
             URL |-> URLRoom1, Bedrooms |-> 0, Bathrooms |-> 0, Guests |-> 0]
StoredC  == [Title |-> <<"C">>, Price |-> 0, Location |-> <<"T">>, Rating |-> 0,
             URL |-> URLRoom2, Bedrooms |-> 1, Bathrooms |-> 1, Guests |-> 2]
StoredListings == {StoredA, StoredA2, StoredC}

\* one call of InsertListing on the table as it is
DB_InsertListing ==
    /\ Len(upsertLog) < MaxUpserts
    /\ \E listing \in StoredListings, ok \in BOOLEAN : InsertListing(listing, ok)
    /\ UNCHANGED <<svpc, svInput, svIdx, successCount, svRet>>
    /\ UNCHANGED <<anVars, urlVars, envVars, sessVars, scrapeVars, poolVars, driverVars, homeVars>>

(***************************************************************************)
(* utils.NormalizePrice and utils.NormalizeRating, in hundredths.          *)
(***************************************************************************)
DigitOrder == <<"0","1","2","3","4","5","6","7","8","9">>

DigitValue(c) == (CHOOSE i \in 1..10 : DigitOrder[i] = c) - 1

IsDecimalChar(c) == c \in Digits \/ c = "."

RECURSIVE DigitsValue(_)
\* the number a string of digits writes
DigitsValue(ds) ==
    IF ds = <<>> THEN 0
    ELSE 10 * DigitsValue(Take(ds, Len(ds) - 1)) + DigitValue(ds[Len(ds)])

\* the number a decimal numeral writes, in hundredths; 0 when it is none
ParseDecimal(t) ==
    IF t = <<>> \/ Count(t, ".") > 1 \/ t = <<".">> THEN 0
    ELSE IF Count(t, ".") = 0 THEN 100 * DigitsValue(t)
    ELSE LET whole == Take(t, Index(t, <<".">>))
             frac  == Take(Drop(t, Index(t, <<".">>) + 1) \o <<"0", "0">>, 2)
         IN  100 * DigitsValue(whole) + DigitsValue(frac)

\* every character but digits and the point is stripped, the rest is parsed
NormalizePrice(text) == ParseDecimal(SelectSeq(text, IsDecimalChar))

RECURSIVE LeadingDecimal(_)
LeadingDecimal(text) ==
    IF text = <<>> \/ ~IsDecimalChar(text[1]) THEN <<>>
    ELSE <<text[1]>> \o LeadingDecimal(Tail(text))

\* the leading decimal number of the text
NormalizeRating(text) == ParseDecimal(LeadingDecimal(text))

(***************************************************************************)
(* ListingService.NormalizeAndSave (listing_service.go).                   *)
(***************************************************************************)
\* ListingService.normalize (lines 66-77)
normalize(raw) ==
    [Title |-> raw.Title, Price |-> NormalizePrice(raw.Price),
     Location |-> raw.Location, Rating |-> NormalizeRating(raw.Rating),
     URL |-> NormalizeURL(raw.URL), Bedrooms |-> raw.Bedrooms,
     Bathrooms |-> raw.Bathrooms, Guests |-> raw.Guests]

\* a check that also refuses a record without a price
InvalidOrNoPrice(listing) ==
    listing.Title = <<>> \/ listing.URL = <<>> \/ listing.Price = 0

\* the check of line 39
Invalid(listing) == listing.Title = <<>> \/ listing.URL = <<>>

ErrNoListings == "no listings to save"

SaveIdle ==
    /\ svpc = "off"
    /\ svInput = <<>>
    /\ svIdx = 0
    /\ successCount = 0
    /\ svRet = [count |-> 0, err |-> NilErr]
    /\ upsertLog = <<>>

\* the state at the call of NormalizeAndSave(rawListings)
SaveCalled(rawListings) ==
    /\ svpc' = "call"
    /\ svInput' = rawListings
    /\ svIdx' = 0
    /\ successCount' = 0
    /\ svRet' = [count |-> 0, err |-> NilErr]

\* the empty input is refused, the counters are set (lines 27-32)
NS_Begin ==
    /\ svpc = "call"
    /\ IF Len(svInput) = 0
       THEN /\ svpc' = "done"
            /\ svRet' = [count |-> 0, err |-> ErrNoListings]
            /\ UNCHANGED svIdx
       ELSE /\ svpc' = "loop"
            /\ svIdx' = 1
            /\ UNCHANGED svRet
    /\ UNCHANGED <<svInput, successCount, upsertLog>>
    /\ UNCHANGED <<anVars, urlVars, envVars, sessVars, scrapeVars, poolVars, driverVars, homeVars, dbVars>>

\* a loop that ends at the first failed insert
AfterFailedInsertStop(i) == Len(svInput) + 1

\* continue: a failed insert is logged and the loop goes to the next record
AfterFailedInsert(i) == i + 1

\* one iteration of the loop, up to the call of InsertListing (lines 34-45)
NS_Record ==
    /\ svpc = "loop"
    /\ svIdx <= Len(svInput)
    /\ IF Invalid(normalize(svInput[svIdx]))
       THEN svIdx' = svIdx + 1 /\ UNCHANGED svpc
       ELSE svpc' = "insert" /\ UNCHANGED svIdx
    /\ UNCHANGED <<svInput, successCount, svRet, upsertLog>>
    /\ UNCHANGED <<anVars, urlVars, envVars, sessVars, scrapeVars, poolVars, driverVars, homeVars, dbVars>>

\* a count of the rows written: an upsert onto a stored URL is not counted;
\* calls is the log of the calls of InsertListing up to the one just made
CountedIfNew(n, calls) ==
    IF RowsOf(table, calls[Len(calls)].listing.URL) = {} THEN n + 1 ELSE n

\* successCount++ after every InsertListing without error (line 52)
Counted(n, calls) == n + 1

\* InsertListing returns and its result is handled (lines 45-53)
NS_Inserted ==
    /\ svpc = "insert"
    /\ \E ok \in BOOLEAN :
          /\ InsertListing(normalize(svInput[svIdx]), ok)
          /\ IF ok
             THEN /\ successCount' = Counted(successCount, upsertLog')
                  /\ svIdx' = svIdx + 1
             ELSE /\ UNCHANGED successCount
                  /\ svIdx' = AfterFailedInsert(svIdx)
    /\ svpc' = "loop"
    /\ UNCHANGED <<svInput, svRet>>
    /\ UNCHANGED <<anVars, urlVars, envVars, sessVars, scrapeVars, poolVars, driverVars, homeVars>>

\* a call that reports an error when no listing was saved
SaveResultOrError(n) ==
    [count |-> n, err |-> IF n = 0 THEN ErrNoListings ELSE NilErr]

\* return successCount, nil (line 62)
SaveResult(n) == [count |-> n, err |-> NilErr]

\* the count is returned (lines 56-62)
NS_Return ==
    /\ svpc = "loop"
    /\ svIdx > Len(svInput)
    /\ svpc' = "done"
    /\ svRet' = SaveResult(successCount)
    /\ UNCHANGED <<svInput, svIdx, successCount, upsertLog>>
    /\ UNCHANGED <<anVars, urlVars, envVars, sessVars, scrapeVars, poolVars, driverVars, homeVars, dbVars>>

NormalizeAndSave ==
    \/ NS_Begin
    \/ NS_Record
    \/ NS_Inserted
    \/ NS_Return

\* the raw listings a call is tried with: two of one room, one of another,
\* one without a title
SaveRaws == {ToRawListing(CardA), ToRawListing(CardB), ToRawListing(CardC),
             ToRawListing(CardNoTitle)}

(***************************************************************************)
(* main (main.go), one action per step between two calls.                  *)
(***************************************************************************)
DriverIdle ==
    /\ pc = "off"
    /\ locations = <<>>
    /\ locIdx = 0
    /\ allRawListings = <<>>
    /\ totalProperties = 0
    /\ mainUrls = <<>>
    /\ detailResults = EmptyMap
    /\ outcomes = <<>>

\* a driver that goes on to the detail pages after a failed discovery
AfterDiscoveryErrorGoOn == "urls"

\* log.Fatal: the process ends (lines 43-45)
AfterDiscoveryError == "fatal"

\* Step 1: the result of ScrapeHomepageLocations is handled (lines 42-55)
M_Discover ==
    /\ pc = "discover"
    /\ hpc = "done"
    /\ IF homeRet.err # NilErr
       THEN /\ pc' = AfterDiscoveryError
            /\ UNCHANGED <<locations, locIdx>>
       ELSE /\ locations' = homeRet.locations
            /\ IF Len(homeRet.locations) = 0
               THEN pc' = "exit" /\ UNCHANGED locIdx
               ELSE pc' = "scrape" /\ locIdx' = 1
    /\ UNCHANGED <<allRawListings, totalProperties, mainUrls, detailResults, outcomes>>
    /\ UNCHANGED <<anVars, urlVars, envVars, sessVars, homeVars, dbVars, saveVars, scrapeVars, poolVars>>

\* Step 2: scraper.ScrapeListings(ctx, location.URL) is called (lines 63-68)
M_CallScrape ==
    /\ pc = "scrape"
    /\ spc = "idle"
    /\ locIdx <= Len(locations)
    /\ ScrapeCalled(locations[locIdx].URL)
    /\ UNCHANGED <<anVars, urlVars, envVars, homeVars, dbVars, saveVars, poolVars, driverVars>>

\* the location loop stops at the first failing location
AfterFailedLocationStop(i) == Len(locations) + 1

\* continue: a failed location is logged and the loop goes to the next one
AfterFailedLocation(i) == i + 1

\* its result is handled (lines 69-81)
M_ScrapeResult ==
    /\ pc = "scrape"
    /\ spc = "done"
    /\ outcomes' = Append(outcomes, [url |-> locationURL, err |-> scrapeRet.err,
                                     listings |-> scrapeRet.listings])
    /\ IF scrapeRet.err # NilErr
       THEN /\ locIdx' = AfterFailedLocation(locIdx)
            /\ UNCHANGED <<allRawListings, totalProperties>>
       ELSE IF Len(scrapeRet.listings) = 0
       THEN /\ locIdx' = locIdx + 1
            /\ UNCHANGED <<allRawListings, totalProperties>>
       ELSE /\ allRawListings' = allRawListings \o scrapeRet.listings
            /\ totalProperties' = totalProperties + Len(scrapeRet.listings)
            /\ locIdx' = locIdx + 1
    /\ spc' = "idle"
    /\ UNCHANGED <<locationURL, page, allListings, browserPage, scrapeRet, pageLog,
                   nAdvance, stop>>
    /\ UNCHANGED <<pc, locations, mainUrls, detailResults>>
    /\ UNCHANGED <<anVars, urlVars, envVars, sessVars, homeVars, dbVars, saveVars, poolVars>>

\* after the last location (lines 82-90)
M_LoopEnd ==
    /\ pc = "scrape"
    /\ spc = "idle"
    /\ locIdx > Len(locations)
    /\ pc' = IF totalProperties = 0 THEN "exit" ELSE "urls"
    /\ UNCHANGED <<locations, locIdx, allRawListings, totalProperties, mainUrls,
                   detailResults, outcomes>>
    /\ UNCHANGED <<anVars, urlVars, envVars, sessVars, homeVars, dbVars, saveVars, scrapeVars, poolVars>>

RECURSIVE ListingURLs(_)
\* the loop of lines 101-107: the canonical URL of every listing that has one
ListingURLs(listings) ==
    IF listings = <<>> THEN <<>>
    ELSE IF listings[1].URL # <<>>
    THEN <<NormalizeURL(listings[1].URL)>> \o ListingURLs(Tail(listings))
    ELSE ListingURLs(Tail(listings))

\* Step 3: the URLs are built and ScrapeDetailsWithWorkers is called (lines 99-110)
M_BuildURLs ==
    /\ pc = "urls"
    /\ mainUrls' = ListingURLs(allRawListings)
    /\ PoolCalled(ListingURLs(allRawListings))
    /\ pc' = "pool"
    /\ UNCHANGED <<failsBefore, ctxDone>>
    /\ UNCHANGED <<locations, locIdx, allRawListings, totalProperties, detailResults,
                   outcomes>>
    /\ UNCHANGED <<anVars, urlVars, envVars, sessVars, homeVars, dbVars, saveVars, scrapeVars>>

\* detailResults[normalizedURL] and its ok flag (line 115)
Lookup(details, normalizedURL) ==
    IF normalizedURL \in DOMAIN details
    THEN [exists |-> TRUE, detail |-> details[normalizedURL]]
    ELSE [exists |-> FALSE, detail |-> FailureResult(normalizedURL)]

\* a merge that also replaces the listing's URL by the key of its DetailResult
CopyDetailsAndURL(listing, found) ==
    IF found.exists /\ found.detail.Error = NilErr
    THEN [listing EXCEPT !.Bedrooms = found.detail.Bedrooms,
                         !.Bathrooms = found.detail.Bathrooms,
                         !.Guests = found.detail.Guests,
                         !.URL = found.detail.URL]
    ELSE listing

\* the detail fields are copied when the entry exists and has no error
\* (lines 115-119)
CopyDetails(listing, found) ==
    IF found.exists /\ found.detail.Error = NilErr
    THEN [listing EXCEPT !.Bedrooms = found.detail.Bedrooms,
                         !.Bathrooms = found.detail.Bathrooms,
                         !.Guests = found.detail.Guests]
    ELSE listing

\* one listing after the merge (lines 113-119)
MergeOne(listing, details) ==
    CopyDetails(listing, Lookup(details, NormalizeURL(listing.URL)))

RECURSIVE MergeAll(_, _)
\* the loop of lines 113-120 over allRawListings
MergeAll(listings, details) ==
    IF listings = <<>> THEN <<>>
    ELSE <<MergeOne(listings[1], details)>> \o MergeAll(Tail(listings), details)

\* a merge that does not wait for the call to return
MergeReadyAsync == poolpc \in {"running", "returned"}

\* the merge follows the return of ScrapeDetailsWithWorkers (line 110)
MergeReady == poolpc = "returned"

\* the returned map is merged into the listings (lines 110-120)
M_Merge ==
    /\ pc = "pool"
    /\ MergeReady
    /\ detailResults' = results
    /\ allRawListings' = MergeAll(allRawListings, results)
    /\ pc' = "save"
    /\ UNCHANGED <<locations, locIdx, totalProperties, mainUrls, outcomes>>
    /\ UNCHANGED <<anVars, urlVars, envVars, sessVars, homeVars, dbVars, saveVars, scrapeVars, poolVars>>

\* a driver that starts to save while the detail pool is running
SaveReadyEarly == pc \in {"pool", "save"}

\* the save follows the merge loop in program order (lines 113-124)
SaveReady == pc = "save"

\* Step 4: listingService.NormalizeAndSave(allRawListings) is called (line 124)
M_SaveCall ==
    /\ SaveReady
    /\ SaveCalled(allRawListings)
    /\ pc' = "saving"
    /\ UNCHANGED upsertLog
    /\ UNCHANGED <<locations, locIdx, allRawListings, totalProperties, mainUrls,
                   detailResults, outcomes>>
    /\ UNCHANGED <<anVars, urlVars, envVars, sessVars, homeVars, dbVars, scrapeVars, poolVars>>

\* its error is logged, the summary is printed and main returns (lines 125-136)
M_Finish ==
    /\ pc = "saving"
    /\ svpc = "done"
    /\ pc' = "done"
    /\ UNCHANGED <<locations, locIdx, allRawListings, totalProperties, mainUrls,
                   detailResults, outcomes>>
    /\ UNCHANGED <<anVars, urlVars, envVars, sessVars, homeVars, dbVars, saveVars, scrapeVars, poolVars>>

main ==
    \/ ScrapeHomepageLocations
    \/ M_Discover
    \/ M_CallScrape
    \/ ScrapeListings
    \/ M_ScrapeResult
    \/ M_LoopEnd
    \/ M_BuildURLs
    \/ ScrapeDetailsWithWorkers
    \/ M_Merge
    \/ M_SaveCall
    \/ NormalizeAndSave
    \/ M_Finish

(***************************************************************************)
(* AnalyticsService.GetAnalytics and getTopRated (analytics_service.go).   *)
(* Prices and ratings are in hundredths.                                   *)
(***************************************************************************)
ErrGetListings == "failed to get listings"

\* a pointer is the empty sequence when nil, and else holds what it points to
AnIdle ==
    /\ anpc = "off"
    /\ dbListings = <<>>
    /\ topN = 0
    /\ anaRet = [analytics |-> <<>>, err |-> NilErr]
    /\ topRet = <<>>

\* the fields of models.Listing that the analytics read, and the id
StoredRow(id, price, location, rating) ==
    [ID |-> id, Price |-> price, Location |-> location, Rating |-> rating]

\* the rows the analytics are tried with: prices, ratings and locations each
\* shared by some rows
AnalyticsRows ==
    {StoredRow(1, 10000, "Paris", 490), StoredRow(2, 45000, "Sydney", 495),
     StoredRow(3, 45000, "Paris", 490), StoredRow(4, 4500, "Tokyo", 0),
     StoredRow(5, 4500, "Sydney", 498), StoredRow(6, 12000, "Tokyo", 495)}

RECURSIVE DistinctSeqs(_, _)
\* the sequences of n distinct members of S
DistinctSeqs(S, n) ==
    IF n = 0 THEN {<<>>}
    ELSE UNION {{Append(q, x) : x \in S \ {q[i] : i \in 1..Len(q)}} :
                    q \in DistinctSeqs(S, n - 1)}

\* what GetAllListings may return: rows of distinct ids, in any order
AnalyticsInputs == UNION {DistinctSeqs(AnalyticsRows, n) : n \in 0..MaxRows}

\* a comparison that also moves MostExpensive to a listing of the same price
DearerOrEqual(listing, acc) == listing.Price >= acc.MaxPrice

\* listing.Price > analytics.MaxPrice (line 63)
Dearer(listing, acc) == listing.Price > acc.MaxPrice

\* analytics.ListingsPerLocation[listing.Location]++ (line 73)
Increment(counts, location) ==
    [l \in DOMAIN counts \cup {location} |->
        IF l = location
        THEN (IF location \in DOMAIN counts THEN counts[location] ELSE 0) + 1
        ELSE counts[l]]

\* the values before the loop (lines 48-57); MostExpensive is &listings[0]
LoopStart(listings) ==
    [totalPrice |-> 0, MaxPrice |-> listings[1].Price, MinPrice |-> listings[1].Price,
     MostExpensive |-> 1, ListingsPerLocation |-> [l \in {} |-> 0]]

\* one iteration of the loop (lines 59-74) on listings[i]
LoopBody(acc, listings, i) ==
    [totalPrice |-> acc.totalPrice + listings[i].Price,
     MaxPrice |-> IF Dearer(listings[i], acc) THEN listings[i].Price ELSE acc.MaxPrice,
     MostExpensive |-> IF Dearer(listings[i], acc) THEN i ELSE acc.MostExpensive,
     MinPrice |-> IF listings[i].Price < acc.MinPrice
                  THEN listings[i].Price ELSE acc.MinPrice,
     ListingsPerLocation |-> Increment(acc.ListingsPerLocation, listings[i].Location)]

RECURSIVE PriceLoop(_, _)
\* the loop of lines 59-74 after i iterations
PriceLoop(listings, i) ==
    IF i = 0 THEN LoopStart(listings)
    ELSE LoopBody(PriceLoop(listings, i - 1), listings, i)

\* a comparison that also swaps listings of equal rating
SwapNeededOrEqual(a, b) == a.Rating <= b.Rating

\* sorted[j].Rating < sorted[j+1].Rating (line 95)
SwapNeeded(a, b) == a.Rating < b.Rating

\* sorted[j], sorted[j+1] = sorted[j+1], sorted[j], j counted from 1
Swap(sorted, j) == [sorted EXCEPT ![j] = sorted[j + 1], ![j + 1] = sorted[j]]

RECURSIVE InnerLoop(_, _, _)
\* for j := ...; j < len(sorted)-i-1; j++ (lines 94-98), from j on, i and j
\* counted from 0
InnerLoop(sorted, i, j) ==
    IF j < Len(sorted) - i - 1
    THEN InnerLoop(IF SwapNeeded(sorted[j + 1], sorted[j + 2])
                   THEN Swap(sorted, j + 1) ELSE sorted,
                   i, j + 1)
    ELSE sorted

RECURSIVE OuterLoop(_, _)
\* for i := ...; i < len(sorted)-1; i++ (lines 93-99), from i on
OuterLoop(sorted, i) ==
    IF i < Len(sorted) - 1
    THEN OuterLoop(InnerLoop(sorted, i, 0), i + 1)
    ELSE sorted

\* getTopRated(listings, n), n >= 0: the slice returned and the caller's slice
\* after the call; the sort runs on a copy (lines 89-90)
getTopRated(listings, n) ==
    LET sorted == OuterLoop(listings, 0)
    IN  [ret |-> IF Len(sorted) < n THEN sorted ELSE Take(sorted, n),
         listings |-> listings]

\* s.getTopRated(listings, 5) (line 81)
TopRatedCount == 5

\* &Analytics{} (line 45)
ZeroAnalytics ==
    [TotalListings |-> 0, AveragePrice |-> [num |-> 0, den |-> 1], MaxPrice |-> 0,
     MinPrice |-> 0, MostExpensive |-> <<>>, ListingsPerLocation |-> [l \in {} |-> 0],
     TopRated |-> <<>>]

\* the Analytics of a non-empty slice (lines 48-83); the average is the exact
\* quotient num / den; MostExpensive points into listings, read after the call
\* of getTopRated
AnalyticsOf(listings) ==
    LET acc == PriceLoop(listings, Len(listings))
        top == getTopRated(listings, TopRatedCount)
    IN  [TotalListings |-> Len(listings),
         AveragePrice |-> [num |-> acc.totalPrice, den |-> Len(listings)],
         MaxPrice |-> acc.MaxPrice, MinPrice |-> acc.MinPrice,
         MostExpensive |-> <<top.listings[acc.MostExpensive]>>,
         ListingsPerLocation |-> acc.ListingsPerLocation,
         TopRated |-> top.ret]

\* AnalyticsService.GetAnalytics (lines 38-84)
GetAnalytics ==
    /\ anpc = "call"
    /\ \/ \* GetAllListings returns an error (lines 39-42)
          /\ anaRet' = [analytics |-> <<>>, err |-> ErrGetListings]
          /\ UNCHANGED <<dbListings, topRet>>
       \/ /\ Len(dbListings) = 0
          /\ anaRet' = [analytics |-> <<ZeroAnalytics>>, err |-> NilErr]
          /\ UNCHANGED <<dbListings, topRet>>
       \/ /\ Len(dbListings) > 0
          /\ anaRet' = [analytics |-> <<AnalyticsOf(dbListings)>>, err |-> NilErr]
          /\ dbListings' = getTopRated(dbListings, TopRatedCount).listings
          /\ topRet' = getTopRated(dbListings, TopRatedCount).ret
    /\ anpc' = "done"
    /\ UNCHANGED topN
    /\ UNCHANGED <<urlVars, envVars, sessVars, scrapeVars, poolVars, driverVars,
                   homeVars, dbVars, saveVars>>

\* one call of getTopRated(listings, n)
CallGetTopRated ==
    /\ anpc = "call"
    /\ topRet' = getTopRated(dbListings, topN).ret
    /\ dbListings' = getTopRated(dbListings, topN).listings
    /\ anpc' = "done"
    /\ UNCHANGED <<topN, anaRet>>
    /\ UNCHANGED <<urlVars, envVars, sessVars, scrapeVars, poolVars, driverVars,
                   homeVars, dbVars, saveVars>>

(***************************************************************************)
(* The specifications.                                                     *)
(***************************************************************************)
\* one call of GetAnalytics, for every table of at most MaxRows rows
InitAnalytics ==
    /\ SessIdle
    /\ URLIdle
    /\ EnvIdle
    /\ ScrapeIdle
    /\ PoolIdle
    /\ DriverIdle
    /\ HomeIdle
    /\ DBIdle
    /\ SaveIdle
    /\ anpc = "call"
    /\ dbListings \in AnalyticsInputs
    /\ topN = 0
    /\ anaRet = [analytics |-> <<>>, err |-> NilErr]
    /\ topRet = <<>>

SpecAnalytics == InitAnalytics /\ [][GetAnalytics]_vars

\* one call of getTopRated, for every slice of at most MaxRows rows and every n
\* of 0..MaxTopN
InitTopRated ==
    /\ SessIdle
    /\ URLIdle
    /\ EnvIdle
    /\ ScrapeIdle
    /\ PoolIdle
    /\ DriverIdle
    /\ HomeIdle
    /\ DBIdle
    /\ SaveIdle
    /\ anpc = "call"
    /\ dbListings \in AnalyticsInputs
    /\ topN \in 0..MaxTopN
    /\ anaRet = [analytics |-> <<>>, err |-> NilErr]
    /\ topRet = <<>>

SpecTopRated == InitTopRated /\ [][CallGetTopRated]_vars

\* the site of a run: Paris shows two pages, Tokyo and Sydney one; Sydney
\* links room 3 with two trailing slashes
RunSite ==
    [l \in LocationURLs |->
        IF l = "L1" THEN << <<CardA, CardNoTitle>>, <<CardB>> >>
        ELSE IF l = "L2" THEN << <<CardC, CardNoURL>> >>
        ELSE << <<CardB, CardSlashes>> >>]

\* the detail page of room 2 fails once, the others load at once
RunFailures == [u \in DetailURLs |-> IF u = URLRoom2 THEN 1 ELSE 0]

\* with MaxRetries = 1 room 2 ends as a failure, with 2 it is retried and loads
RunConfigs == [MaxPages : {2}, PropertiesPerPage : {1, 2},
               WorkerCount : {DefaultWorkers}, MaxRetries : {1, 2}]

\* a run of the program
Init ==
    /\ AnIdle
    /\ sessions = OpenSession(<<>>, "home")
    /\ URLIdle
    /\ ScrapeIdle
    /\ PoolQuiet
    /\ failsBefore = RunFailures
    /\ cfg \in RunConfigs
    /\ site = RunSite
    /\ pc = "discover"
    /\ locations = <<>>
    /\ locIdx = 0
    /\ allRawListings = <<>>
    /\ totalProperties = 0
    /\ mainUrls = <<>>
    /\ detailResults = EmptyMap
    /\ outcomes = <<>>
    /\ hpc = "call"
    /\ homeLinks \in HomepageRows
    /\ homeQuery = "pending"
    /\ homeRet = [locations |-> <<>>, err |-> NilErr]
    /\ DBIdle
    /\ SaveIdle

Spec == Init /\ [][main]_vars


\* one call of ScrapeListings on one location, for every configuration and site
InitScrape ==
    /\ AnIdle
    /\ sessions = OpenSession(<<>>, "listings")
    /\ URLIdle
    /\ PoolIdle
    /\ DriverIdle
    /\ HomeIdle
    /\ DBIdle
    /\ SaveIdle
    /\ cfg \in ScraperConfigs
    /\ \E s \in SiteOptions : site = [l \in LocationURLs |-> IF l = "L1" THEN s ELSE <<>>]
    /\ spc = "load"
    /\ locationURL = "L1"
    /\ page = 0
    /\ allListings = <<>>
    /\ browserPage = 0
    /\ scrapeRet = [listings |-> <<>>, err |-> NilErr]
    /\ pageLog = <<>>
    /\ nAdvance = 0
    /\ stop = "none"

SpecScrape == InitScrape /\ [][ScrapeListings]_vars

\* one call of ScrapeDetailsWithWorkers, for every input of at most MaxURLs
\* URLs and every failure pattern of the detail pages
InitPool ==
    /\ AnIdle
    /\ SessIdle
    /\ URLIdle
    /\ EnvIdle
    /\ ScrapeIdle
    /\ DriverIdle
    /\ HomeIdle
    /\ DBIdle
    /\ SaveIdle
    /\ poolUrls \in {<<>>} \cup SeqsUpTo(PoolInputURLs, MaxURLs)
    /\ failsBefore \in [DetailURLs -> {0, DefaultRetries - 1, DefaultRetries}]
    /\ \A u \in DetailURLs :
          (\A i \in 1..Len(poolUrls) : NormalizeURL(poolUrls[i]) # u)
              => failsBefore[u] = 0
    /\ ctxDone = FALSE
    /\ poolpc = "running"
    /\ tasks = SeedQueue(poolUrls)
    /\ qHead = 1
    /\ wk = [w \in Workers |-> IdleWorker]
    /\ resultsCh = <<>>
    /\ results = EmptyMap
    /\ produced = [i \in 1..Len(poolUrls) |-> 0]
    /\ attempts = [i \in 1..Len(poolUrls) |-> 0]

SpecPool == InitPool /\ [][ScrapeDetailsWithWorkers]_vars

\* every worker and the collector get to run; every attempt ends
PoolFairness ==
    /\ \A w \in 1..DefaultWorkers :
         WF_vars(W_Take(w)) /\ WF_vars(W_Attempt(w))
    /\ WF_vars(Collect)
    /\ WF_vars(PoolReturn)

FairSpecPool == SpecPool /\ PoolFairness

\* one call of ScrapeDetailsWithWorkers whose context may be cancelled
PoolOrCancel ==
    \/ ScrapeDetailsWithWorkers
    \/ CtxCancel

\* its inputs: every URL loads at once or after DefaultRetries - 1 failures
InitPoolCancel ==
    /\ AnIdle
    /\ SessIdle
    /\ URLIdle
    /\ EnvIdle
    /\ ScrapeIdle
    /\ DriverIdle
    /\ HomeIdle
    /\ DBIdle
    /\ SaveIdle
    /\ poolUrls \in SeqsUpTo(PoolInputURLs, MaxCancelURLs)
    /\ failsBefore \in [DetailURLs -> {0, DefaultRetries - 1}]
    /\ \A u \in DetailURLs :
          (\A i \in 1..Len(poolUrls) : NormalizeURL(poolUrls[i]) # u)
              => failsBefore[u] = 0
    /\ ctxDone = FALSE
    /\ poolpc = "running"
    /\ tasks = SeedQueue(poolUrls)
    /\ qHead = 1
    /\ wk = [w \in Workers |-> IdleWorker]
    /\ resultsCh = <<>>
    /\ results = EmptyMap
    /\ produced = [i \in 1..Len(poolUrls) |-> 0]
    /\ attempts = [i \in 1..Len(poolUrls) |-> 0]

SpecPoolCancel == InitPoolCancel /\ [][PoolOrCancel]_vars

FairSpecPoolCancel == SpecPoolCancel /\ PoolFairness

\* one call of ScrapeHomepageLocations on every homepage
InitHome ==
    /\ AnIdle
    /\ sessions = OpenSession(<<>>, "home")
    /\ URLIdle
    /\ EnvIdle
    /\ ScrapeIdle
    /\ PoolIdle
    /\ DriverIdle
    /\ DBIdle
    /\ SaveIdle
    /\ hpc = "call"
    /\ homeLinks \in HomeLinkInputs
    /\ homeQuery = "pending"
    /\ homeRet = [locations |-> <<>>, err |-> NilErr]

SpecHome == InitHome /\ [][ScrapeHomepageLocations]_vars

\* calls of InsertListing on an empty table
InitStore ==
    /\ AnIdle
    /\ SessIdle
    /\ URLIdle
    /\ EnvIdle
    /\ ScrapeIdle
    /\ PoolIdle
    /\ DriverIdle
    /\ HomeIdle
    /\ DBIdle
    /\ SaveIdle

SpecStore == InitStore /\ [][DB_InsertListing]_vars

\* one call of NormalizeAndSave on an empty table
InitSave ==
    /\ AnIdle
    /\ SessIdle
    /\ URLIdle
    /\ EnvIdle
    /\ ScrapeIdle
    /\ PoolIdle
    /\ DriverIdle
    /\ HomeIdle
    /\ DBIdle
    /\ svpc = "call"
    /\ svInput \in {<<>>} \cup SeqsUpTo(SaveRaws, MaxSave)
    /\ svIdx = 0
    /\ successCount = 0
    /\ svRet = [count |-> 0, err |-> NilErr]
    /\ upsertLog = <<>>

SpecSave == InitSave /\ [][NormalizeAndSave]_vars

\* a run of the program, or one call of NormalizeAndSave on any input, the
\* empty one included
InitRunOrSave == Init \/ InitSave

SpecRunOrSave == InitRunOrSave /\ [][main]_vars

\* a run in which the goroutines of the pool are scheduled
FairSpec == Spec /\ PoolFairness

(***************************************************************************)
(* SpecURL: NormalizeURL applied once and twice to one input.              *)
(***************************************************************************)
InitURL ==
    /\ AnIdle
    /\ SessIdle
    /\ EnvIdle
    /\ ScrapeIdle
    /\ PoolIdle
    /\ DriverIdle
    /\ HomeIdle
    /\ DBIdle
    /\ SaveIdle
    /\ urlBase \in URLInputs
    /\ urlQuery \in QueryInputs
    /\ canon1 = <<>>
    /\ canon2 = <<>>
    /\ upc = "in"

\* canon := NormalizeURL(rawURL)
Canonicalize ==
    /\ upc = "in"
    /\ canon1' = NormalizeURL(rawURL)
    /\ upc' = "once"
    /\ UNCHANGED <<anVars, urlBase, urlQuery, canon2,
                   envVars, sessVars, homeVars, dbVars, saveVars, scrapeVars, poolVars,
                   driverVars>>

\* canon := NormalizeURL(canon)
Recanonicalize ==
    /\ upc = "once"
    /\ canon2' = NormalizeURL(canon1)
    /\ upc' = "twice"
    /\ UNCHANGED <<anVars, urlBase, urlQuery, canon1,
                   envVars, sessVars, homeVars, dbVars, saveVars, scrapeVars, poolVars,
                   driverVars>>

NextURL == Canonicalize \/ Recanonicalize

SpecURL == InitURL /\ [][NextURL]_vars

\* a run of the program, or NormalizeURL on any input
InitRunOrURL == Init \/ InitURL

RunOrURL == main \/ NextURL

SpecRunOrURL == InitRunOrURL /\ [][RunOrURL]_vars

(***************************************************************************)
(* Claims about NormalizeURL.                                              *)
(***************************************************************************)
ParsesOK(u) == ~ParseURL(u).err

\* C1: NormalizeURL is idempotent on every URL that parses, trailing slashes
\* included: NormalizeURL(NormalizeURL(u)) = NormalizeURL(u).
\* Checked on the absolute URLs (a scheme and a host), the valid URLs of any reading.
C1_Idempotent ==
    (/\ upc = "twice"
     /\ ParsesOK(rawURL)
     /\ ParseURL(rawURL).Scheme # <<>>
     /\ ParseURL(rawURL).Host # <<>>) => canon2 = canon1

\* C2: for every non-empty URL that parses, the result is scheme://host/path
\* with a trailing slash removed and the query string dropped, so the URL with
\* and without its query string normalize to the same string; the spec's
\* example "https://x/rooms/1?a=1&b=2" gives "https://x/rooms/1".
C2_QueryDropped ==
    (upc # "in" /\ urlBase # <<>> /\ ParsesOK(rawURL)) =>
        LET p == ParseURL(rawURL)
        IN  /\ canon1 = TrimSuffix(p.Scheme \o <<":", "/", "/">> \o p.Host \o p.Path,
                                   <<"/">>)
            /\ ~Contains(canon1, <<"?">>)
            /\ (~Contains(urlBase, <<"#">>) /\ ~Contains(urlBase, <<"?">>))
                    => /\ ParsesOK(urlBase)
                       /\ canon1 = NormalizeURL(urlBase)
            /\ (urlBase = TokScheme \o TokHost \o TokRooms \o TokOne
                    /\ urlQuery = <<"?", "a", "=", "1", "&", "b", "=", "2">>)
                    => canon1 = TokScheme \o TokHost \o TokRooms \o TokOne

\* the spec's example has been canonicalized
C2_Witness ==
    /\ upc = "once"
    /\ urlBase = TokScheme \o TokHost \o TokRooms \o TokOne
    /\ urlQuery = <<"?", "a", "=", "1", "&", "b", "=", "2">>

\* the 1-based positions where "/rooms/" starts in u
MarkerStarts(u) ==
    {i \in 1..Len(u) : i + Len(RoomsMarker) - 1 <= Len(u)
                         /\ SubSeq(u, i, i + Len(RoomsMarker) - 1) = RoomsMarker}

\* the positions of a "?" in u from position i on
QueriesFrom(u, i) == {j \in i..Len(u) : u[j] = "?"}

\* the least member of a non-empty set of positions
Least(S) == CHOOSE i \in S : \A j \in S : i <= j

\* C27: when the URL does not parse, NormalizeURL finds the first "/rooms/" and
\* cuts the string just before the first "?" that follows it; without a
\* "/rooms/", or without a "?" after it, the input comes back unchanged.
C27_ParseFailureFallback ==
    (upc # "in" /\ ~ParsesOK(rawURL)) =>
        IF MarkerStarts(rawURL) = {}
        THEN canon1 = rawURL
        ELSE LET after == QueriesFrom(rawURL, Least(MarkerStarts(rawURL)))
             IN  IF after = {} THEN canon1 = rawURL
                 ELSE canon1 = SubSeq(rawURL, 1, Least(after) - 1)

\* a URL that does not parse, with a "?" before its "/rooms/" and one after,
\* has been cut at the second
C27_Witness ==
    /\ upc = "once"
    /\ ~ParsesOK(rawURL)
    /\ MarkerStarts(rawURL) # {}
    /\ QueriesFrom(rawURL, 1) # QueriesFrom(rawURL, Least(MarkerStarts(rawURL)))
    /\ QueriesFrom(rawURL, Least(MarkerStarts(rawURL))) # {}
    /\ canon1 # rawURL
    /\ HasSuffix(canon1, RoomsMarker)

(***************************************************************************)
(* Claims about ScrapeListings.                                            *)
(***************************************************************************)
RECURSIVE LoggedListings(_)
\* the listings of the extraction queries of a log, in order
LoggedListings(log) ==
    IF log = <<>> THEN <<>> ELSE log[1].listings \o LoggedListings(Tail(log))

RECURSIVE SitePagesListings(_, _)
\* the listings of result pages 1..n of a location, in page order
SitePagesListings(loc, n) ==
    IF n = 0 THEN <<>>
    ELSE SitePagesListings(loc, n - 1) \o PageListings(loc, n)

\* C7: one call does at most MaxPages card-extraction queries and at most
\* MaxPages - 1 next-page advances, takes at most PropertiesPerPage listings
\* from each page and returns at most MaxPages x PropertiesPerPage; unless a
\* wait is pending for ever it goes on until it has returned, and it returns
\* after MaxPages pages or at a page without a usable next control (or at a
\* failure).
C7_BoundedPages ==
    spc # "idle" =>
        /\ page <= cfg.MaxPages
        /\ Len(pageLog) <= cfg.MaxPages
        /\ nAdvance <= cfg.MaxPages - 1
        /\ \A i \in 1..Len(pageLog) :
              Len(pageLog[i].listings) <= cfg.PropertiesPerPage
        /\ Len(allListings) <= Len(pageLog) * cfg.PropertiesPerPage
        /\ spc \notin {"done", "blocked"} => ENABLED ScrapeListings
        /\ spc = "done" =>
              /\ ~ENABLED ScrapeListings
              /\ Len(scrapeRet.listings) <= cfg.MaxPages * cfg.PropertiesPerPage
              /\ stop = "maxpages" => page = cfg.MaxPages
              /\ stop = "nonext" => ~HasNext(locationURL, browserPage)
              /\ stop \in {"maxpages", "nonext", "loaderr", "checkerr",
                            "clickerr", "waiterr"}

\* a call that used every page of its budget, cut a page to PropertiesPerPage
\* and returned
C7_Witness ==
    /\ spc = "done"
    /\ cfg.MaxPages >= 2
    /\ Len(pageLog) = cfg.MaxPages
    /\ nAdvance = cfg.MaxPages - 1
    /\ \E i \in 1..Len(pageLog) :
          /\ pageLog[i].ok
          /\ Len(parseListingsJSON(CardQuery(locationURL, pageLog[i].browser)))
                > cfg.PropertiesPerPage
    /\ Len(scrapeRet.listings) = cfg.MaxPages * cfg.PropertiesPerPage

\* no step of the call failed
NoStepFailed ==
    /\ stop \in {"maxpages", "nonext"}
    /\ \A i \in 1..Len(pageLog) : pageLog[i].ok

\* C8: on a location with exactly P result pages (a next control after every
\* page but the last), with MaxPages >= P and no failing step, the call returns
\* the listings of pages 1..P in page order, with a nil error, and has not gone
\* past page P; with MaxPages > P it stops at page P's missing next control.
C8_AllPagesInOrder ==
    (/\ spc = "done"
     /\ NoStepFailed
     /\ cfg.MaxPages >= Len(site[locationURL])) =>
        LET P == Len(site[locationURL])
        IN  /\ scrapeRet.err = NilErr
            /\ scrapeRet.listings = SitePagesListings(locationURL, P)
            /\ browserPage = P
            /\ Len(pageLog) = P
            /\ cfg.MaxPages > P => stop = "nonext"

\* the spec's case: two pages, both with listings, the stop at the missing
\* next control of page 2
C8_Witness ==
    /\ spc = "done"
    /\ NoStepFailed
    /\ Len(site[locationURL]) = 2
    /\ cfg.MaxPages > 2
    /\ stop = "nonext"
    /\ PageListings(locationURL, 1) # <<>>
    /\ PageListings(locationURL, 2) # <<>>
    /\ PageListings(locationURL, 1) # PageListings(locationURL, 2)

\* C10: when the wait after an invoked next control fails, the call ends
\* there (no further page is extracted) and returns, with a nil error, every
\* listing extracted from the pages before.
C10_WaitFailureKeepsPages ==
    (spc = "done" /\ stop = "waiterr") =>
        /\ scrapeRet.err = NilErr
        /\ scrapeRet.listings = LoggedListings(pageLog)
        /\ nAdvance >= 1
        /\ Len(pageLog) = page
        /\ pageLog[Len(pageLog)].ok
        /\ ~ENABLED ScrapeListings

\* a failed wait with pages of the budget left and listings already extracted
C10_Witness ==
    /\ spc = "done"
    /\ stop = "waiterr"
    /\ page < cfg.MaxPages
    /\ scrapeRet.listings # <<>>
    /\ page >= 2
    /\ Len(scrapeRet.listings) > Len(pageLog[Len(pageLog)].listings)

(***************************************************************************)
(* Claims about the detail worker pool.                                    *)
(***************************************************************************)
\* NormalizeURL of the URLs a call may be given, computed once
CanonicalOf ==
    [u \in PoolInputURLs \cup DetailURLs \cup {URLRoom3Slashes} |-> NormalizeURL(u)]

\* the distinct canonical URLs of an input
CanonicalSet(urls) == {CanonicalOf[urls[i]] : i \in 1..Len(urls)}

\* C3: the map never holds more entries than the input has distinct canonical
\* URLs, every entry is keyed by the canonical URL of its DetailResult, and the
\* returned map has exactly one entry per distinct canonical URL of the input.
C3_OneEntryPerCanonicalURL ==
    poolpc # "idle" =>
        /\ DOMAIN results \subseteq CanonicalSet(poolUrls)
        /\ Cardinality(DOMAIN results) <= Cardinality(CanonicalSet(poolUrls))
        /\ \A u \in DOMAIN results : results[u].URL = u
        /\ poolpc = "returned" =>
              Cardinality(DOMAIN results) = Cardinality(CanonicalSet(poolUrls))

\* a returned call whose input named one room twice, with and without a
\* query string, and another room
C3_Witness ==
    /\ poolpc = "returned"
    /\ \E i, j \in 1..Len(poolUrls) :
          poolUrls[i] = URLRoom1 /\ poolUrls[j] = URLRoom1Query
    /\ Len(poolUrls) = 3
    /\ Cardinality(DOMAIN results) = 2

\* C5: a URL whose every attempt fails gets MaxRetries attempts, all by the
\* worker that took it, and then a DetailResult with an error and zero counts;
\* the pool goes on: at the return every task has produced its one DetailResult
\* and every URL of the input has its entry.
C5_ExhaustedRetriesRecorded ==
    poolpc # "idle" =>
        /\ \A w \in DOMAIN wk : wk[w].attempt <= cfg.MaxRetries
        /\ \A w, v \in DOMAIN wk :
              (w # v /\ wk[w].st = "run" /\ wk[v].st = "run") => wk[w].task # wk[v].task
        /\ \A i \in 1..Len(tasks) :
              \* between two attempts the task stays with its worker
              (attempts[i] > 0 /\ produced[i] = 0) =>
                  \E w \in DOMAIN wk :
                      wk[w].st = "run" /\ wk[w].task = i /\ wk[w].attempt = attempts[i] + 1
        /\ poolpc = "returned" =>
              \A i \in 1..Len(tasks) :
                  /\ produced[i] = 1
                  /\ tasks[i] \in DOMAIN results
                  /\ failsBefore[tasks[i]] >= cfg.MaxRetries =>
                        /\ attempts[i] = cfg.MaxRetries
                        /\ results[tasks[i]].Error # NilErr
                        /\ results[tasks[i]].Bedrooms = 0
                        /\ results[tasks[i]].Bathrooms = 0
                        /\ results[tasks[i]].Guests = 0

\* a returned call with a URL that never loaded and another that did
C5_Witness ==
    /\ poolpc = "returned"
    /\ \E i, j \in 1..Len(tasks) :
          /\ failsBefore[tasks[i]] >= cfg.MaxRetries
          /\ results[tasks[i]].Error = ErrDetail
          /\ i < j
          /\ results[tasks[j]].Error = NilErr

\* C6: a URL that fails on its first k attempts and succeeds on attempt k+1,
\* k+1 <= MaxRetries, ends with a successful DetailResult: no error, the counts
\* of its detail page, after k+1 attempts.
C6_RetryThenSuccess ==
    poolpc = "returned" =>
        \A i \in 1..Len(tasks) :
            failsBefore[tasks[i]] + 1 <= cfg.MaxRetries =>
                /\ tasks[i] \in DOMAIN results
                /\ results[tasks[i]].Error = NilErr
                /\ results[tasks[i]].Bedrooms = DetailPage(tasks[i]).Bedrooms
                /\ results[tasks[i]].Bathrooms = DetailPage(tasks[i]).Bathrooms
                /\ results[tasks[i]].Guests = DetailPage(tasks[i]).Guests
                /\ attempts[i] = failsBefore[tasks[i]] + 1

\* the spec's case: 3 workers, MaxRetries = 3, a URL that failed twice and
\* succeeded on its third attempt, among other URLs
C6_Witness ==
    /\ poolpc = "returned"
    /\ cfg.WorkerCount = 3
    /\ cfg.MaxRetries = 3
    /\ Len(tasks) = 3
    /\ failsBefore[tasks[3]] = 2
    /\ attempts[3] = 3
    /\ results[tasks[3]].Error = NilErr
    /\ tasks[1] # tasks[3]

(***************************************************************************)
(* The location loop of the driver.                                        *)
(***************************************************************************)
RECURSIVE CollectedFrom(_)
\* the listings of the calls that returned without error, in call order
CollectedFrom(outs) ==
    IF outs = <<>> THEN <<>>
    ELSE IF outs[1].err = NilErr
    THEN outs[1].listings \o CollectedFrom(Tail(outs))
    ELSE CollectedFrom(Tail(outs))

LocationLoopDone ==
    \/ pc \in {"urls", "pool", "save"}
    \/ pc = "exit" /\ locations # <<>>

\* C9: a location whose first page fails to load fails alone: the k-th call of
\* ScrapeListings is for the k-th location whatever the earlier calls returned,
\* every location has had its call when the loop is over, a failed call
\* returns no listings, and the collected listings are those of the successful
\* calls, in order, so those collected before a failure are kept
C9_FailedLocationOnly ==
    /\ Len(outcomes) <= Len(locations)
    /\ \A i \in 1..Len(outcomes) :
          /\ outcomes[i].url = locations[i].URL
          /\ outcomes[i].err # NilErr =>
                outcomes[i].err = ErrFirstPage /\ outcomes[i].listings = <<>>
    /\ LocationLoopDone => Len(outcomes) = Len(locations)
    /\ pc \in {"scrape", "urls"} => allRawListings = CollectedFrom(outcomes)
    /\ pc \in {"scrape", "urls"} => totalProperties = Len(allRawListings)

\* the second of three locations failed to load, the first and third are kept
C9_Witness ==
    /\ pc = "urls"
    /\ Len(locations) = 3
    /\ Len(outcomes) = 3
    /\ outcomes[2].err = ErrFirstPage
    /\ outcomes[1].listings # <<>>
    /\ outcomes[3].listings # <<>>
    /\ allRawListings = outcomes[1].listings \o outcomes[3].listings

(***************************************************************************)
(* ScrapeDetailsWithWorkers as a join point of the driver.                 *)
(***************************************************************************)
PoolBusy == \E w \in DOMAIN wk : wk[w].st # "idle"

AllProducedOnce ==
    \A i \in 1..Len(tasks) : produced[i] = 1 /\ tasks[i] \in DOMAIN results

JoinedAtReturn ==
    /\ poolpc = "returned" => PoolJoined /\ ~PoolBusy /\ AllProducedOnce
    /\ pc = "save" => poolpc = "returned" /\ detailResults = results

\* C4: the call returns only when every submitted URL has produced exactly one
\* DetailResult and no worker is processing; the merge step of the driver is
\* taken only then; and a running pool eventually returns
C4_JoinPoint ==
    /\ []JoinedAtReturn
    /\ [][pc = "pool" /\ pc' = "save" => ~PoolBusy /\ AllProducedOnce]_vars
    /\ (poolpc = "running") ~> (poolpc = "returned")

\* the merge has run after a call with four URLs, one of them retried
C4_Witness ==
    /\ pc = "save"
    /\ Len(tasks) = 4
    /\ \E i \in 1..Len(tasks) : attempts[i] = 2
    /\ AllProducedOnce

(***************************************************************************)
(* The end of pagination, failed queries and waits of ScrapeListings.      *)
(***************************************************************************)
\* C11: a next control that is absent or disabled ends the call without a
\* click: the control is clicked only where the page has a usable one, every
\* click so far moved the browser one page on, and the call that ends there
\* returns the listings gathered so far with a nil error and takes no step more
C11_NoNextIsNotAnError ==
    /\ spc = "click" => browserPage < Len(site[locationURL])
    /\ (spc = "done" /\ stop = "nonext") =>
          /\ browserPage = Len(site[locationURL])
          /\ nAdvance = browserPage - 1
          /\ scrapeRet.err = NilErr
          /\ scrapeRet.listings = LoggedListings(pageLog)
          /\ scrapeRet.listings = allListings
          /\ ~ENABLED ScrapeListings

\* the call ended at a missing next control with pages of its budget left,
\* after an advance, with listings
C11_Witness ==
    /\ spc = "done"
    /\ stop = "nonext"
    /\ page < cfg.MaxPages
    /\ nAdvance >= 1
    /\ scrapeRet.listings # <<>>

\* the card query of entry i of the log failed
FailedQuery(i) == ~pageLog[i].ok

\* C12: a failed card query counts as zero results for its page only: the
\* listings gathered are those of the other queries, in order; after a failure
\* on a page before the last the loop goes on with the next page; and the call
\* returns a nil error with the listings of the pages that were extracted
C12_FailedQueryIsZeroResults ==
    /\ spc \notin {"idle", "load"} => allListings = LoggedListings(pageLog)
    /\ \A i \in 1..Len(pageLog) :
          FailedQuery(i) =>
              /\ pageLog[i].listings = <<>>
              /\ pageLog[i].page < cfg.MaxPages =>
                    \/ spc = "extract" /\ page = pageLog[i].page + 1 /\ i = Len(pageLog)
                    \/ i < Len(pageLog) /\ pageLog[i + 1].page = pageLog[i].page + 1
    /\ (spc = "done" /\ \E i \in 1..Len(pageLog) : FailedQuery(i)) =>
          /\ scrapeRet.err = NilErr
          /\ scrapeRet.listings = LoggedListings(pageLog)

\* the query of page 2 failed after page 1 had given listings, and a later
\* query gave more
C12_Witness ==
    /\ spc = "done"
    /\ Len(pageLog) >= 3
    /\ pageLog[1].ok /\ pageLog[1].listings # <<>>
    /\ FailedQuery(2)
    /\ pageLog[3].ok /\ pageLog[3].listings # <<>>
    /\ scrapeRet.err = NilErr
    /\ scrapeRet.listings = pageLog[1].listings \o pageLog[3].listings

\* C13: every wait of the call is bounded: until it has returned, the call
\* can always take its next step
C13_WaitsBounded ==
    spc \notin {"idle", "done"} => ENABLED ScrapeListings

\* the rows of a query that have a title and a URL
ValidRows(rows) ==
    SelectSeq(rows, LAMBDA r : CleanText(r.title) # <<>> /\ r.url # <<>>)

\* C14: every listing of page extraction has a non-empty title and URL; the
\* listings of a page are its rows with both, in order (the first
\* PropertiesPerPage of them), whatever their rating, price or location
C14_TitleAndURL ==
    /\ \A i \in 1..Len(allListings) :
          allListings[i].Title # <<>> /\ allListings[i].URL # <<>>
    /\ \A i \in 1..Len(scrapeRet.listings) :
          scrapeRet.listings[i].Title # <<>> /\ scrapeRet.listings[i].URL # <<>>
    /\ \A i \in 1..Len(pageLog) :
          pageLog[i].ok =>
              LET valid == ValidRows(CardQuery(locationURL, pageLog[i].browser))
                  kept  == pageLog[i].listings
              IN  /\ Len(kept) = IF Len(valid) > cfg.PropertiesPerPage
                                 THEN cfg.PropertiesPerPage ELSE Len(valid)
                  /\ \A k \in 1..Len(kept) :
                        /\ kept[k].URL = valid[k].url
                        /\ kept[k].Title = CleanText(valid[k].title)
                        /\ kept[k].Rating = CleanText(valid[k].rating)

\* a returned call that met a card with a title and no URL and dropped it,
\* and kept a card without a rating
C14_Witness ==
    /\ spc = "done"
    /\ \E i \in 1..Len(pageLog) :
          /\ pageLog[i].ok
          /\ \E k \in 1..Len(CardQuery(locationURL, pageLog[i].browser)) :
                CardQuery(locationURL, pageLog[i].browser)[k] = CardNoURL
          /\ Len(pageLog[i].listings) = 1
    /\ \E i \in 1..Len(scrapeRet.listings) :
          scrapeRet.listings[i].Rating = <<>> /\ scrapeRet.listings[i].Title = <<"B">>

(***************************************************************************)
(* Location discovery.                                                     *)
(***************************************************************************)
\* the links the query returns: the first LocationCap of the homepage
Queried == 1..(IF Len(homeLinks) > LocationCap THEN LocationCap ELSE Len(homeLinks))

\* the first queried link with the URL u
FirstWith(u) ==
    CHOOSE k \in Queried :
        homeLinks[k].url = u /\ \A j \in Queried : homeLinks[j].url = u => k <= j

\* C15: the returned locations are the queried rows without the repeats of a
\* URL: no URL twice, every queried URL once, each with the name of the first
\* queried row of its URL, in the order of these first rows, and at most
\* LocationCap of them
C15_DedupFirstWins ==
    (hpc = "done" /\ homeRet.err = NilErr) =>
        LET ret == homeRet.locations
        IN  /\ Len(ret) <= LocationCap
            /\ \A i, j \in 1..Len(ret) : i # j => ret[i].URL # ret[j].URL
            /\ {ret[i].URL : i \in 1..Len(ret)} = {homeLinks[k].url : k \in Queried}
            /\ \A i \in 1..Len(ret) : ret[i].Name = homeLinks[FirstWith(ret[i].URL)].name
            /\ \A i, j \in 1..Len(ret) :
                  i < j => FirstWith(ret[i].URL) < FirstWith(ret[j].URL)

\* a homepage with more than LocationCap links: a repeated URL under another
\* name was dropped, two locations are returned, and the link after the cap,
\* to a location of its own, is not
C15_Witness ==
    /\ hpc = "done"
    /\ homeRet.err = NilErr
    /\ Len(homeLinks) > LocationCap
    /\ Len(homeRet.locations) = 2
    /\ homeRet.locations[2].Name = "Paris"
    /\ \E k \in Queried : homeLinks[k] = RowParisAgain
    /\ homeLinks[Len(homeLinks)] = RowSydney
    /\ \A i \in 1..Len(homeRet.locations) : homeRet.locations[i].URL # RowSydney.url

(***************************************************************************)
(* The storage gateway.                                                    *)
(***************************************************************************)
OneRowPerURL == \A r1, r2 \in table : r1.url = r2.url => r1 = r2

\* the last call of InsertListing, in a step that made one
LastUpsert == upsertLog'[Len(upsertLog')]

\* a step in which InsertListing succeeded
UpsertDone ==
    /\ Len(upsertLog') = Len(upsertLog) + 1
    /\ LastUpsert.err = NilErr

\* C19: the table never holds two rows of one URL; a successful upsert of a
\* URL that has no row adds one row and leaves the others; a successful upsert
\* of a URL that has a row adds none, leaves the other rows and gives that row
\* the values of the record
C19_UpsertByURL ==
    /\ []OneRowPerURL
    /\ [][UpsertDone =>
            LET u == LastUpsert.listing.URL
            IN  /\ \A r \in table : r.url # u => r \in table'
                /\ \A r \in table' : r.url # u => r \in table
                /\ Cardinality(RowsOf(table', u)) = 1
                /\ \A r \in RowsOf(table', u) :
                      /\ r.title = LastUpsert.listing.Title
                      /\ r.price = LastUpsert.listing.Price
                      /\ r.guests = LastUpsert.listing.Guests
                /\ Cardinality(table') =
                      Cardinality(table) + (IF RowsOf(table, u) = {} THEN 1 ELSE 0)
         ]_vars

\* a URL was upserted twice with different values and another URL once: two
\* rows, the first URL's row with the later values
C19_Witness ==
    /\ Len(upsertLog) = 3
    /\ \A i \in 1..3 : upsertLog[i].err = NilErr
    /\ upsertLog[1].listing = StoredA
    /\ upsertLog[2].listing = StoredC
    /\ upsertLog[3].listing = StoredA2
    /\ Cardinality(table) = 2
    /\ \E r \in table : r.url = URLRoom1 /\ r.title = StoredA2.Title

(***************************************************************************)
(* NormalizeAndSave.                                                       *)
(***************************************************************************)
\* the records of the first k raw listings that pass the check of line 39
RECURSIVE ValidRecords(_, _)
ValidRecords(raws, k) ==
    IF k = 0 THEN <<>>
    ELSE IF Invalid(normalize(raws[k])) THEN ValidRecords(raws, k - 1)
    ELSE Append(ValidRecords(raws, k - 1), normalize(raws[k]))

\* the number of calls of InsertListing that succeeded
Succeeded == Cardinality({i \in 1..Len(upsertLog) : upsertLog[i].err = NilErr})

\* C20: InsertListing is called once for each record, in input order, whether
\* or not the calls before it failed: while the loop is at record k the calls
\* made are the records of the raw listings before k, at the return those of
\* all raw listings; the count returned is the number of calls that succeeded
C20_PerRecordErrors ==
    /\ svpc = "loop" =>
          /\ svIdx <= Len(svInput) + 1
          /\ [i \in 1..Len(upsertLog) |-> upsertLog[i].listing]
                = ValidRecords(svInput, svIdx - 1)
          /\ successCount = Succeeded
    /\ (svpc = "done" /\ svRet.err = NilErr) =>
          /\ [i \in 1..Len(upsertLog) |-> upsertLog[i].listing]
                = ValidRecords(svInput, Len(svInput))
          /\ svRet.count = Succeeded

\* three records, the insert of the first failed, those of the second and
\* third were made and succeeded
C20_Witness ==
    /\ svpc = "done"
    /\ Len(svInput) = 3
    /\ Len(upsertLog) = 3
    /\ upsertLog[1].err = ErrInsert
    /\ upsertLog[2].err = NilErr
    /\ upsertLog[3].err = NilErr
    /\ svRet = [count |-> 2, err |-> NilErr]

(***************************************************************************)
(* The driver and location discovery.                                      *)
(***************************************************************************)
\* nothing downstream of discovery has run: no call of ScrapeListings, no
\* call of ScrapeDetailsWithWorkers, no call of InsertListing
NothingDownstream ==
    /\ spc = "idle"
    /\ outcomes = <<>>
    /\ allRawListings = <<>>
    /\ poolpc = "idle"
    /\ mainUrls = <<>>
    /\ svpc = "off"
    /\ upsertLog = <<>>
    /\ table = {}

\* C16: when the query returned no row, ScrapeHomepageLocations has returned
\* an empty list and a nil error, and the driver ends the run (it is still at
\* the call or has left by the return of lines 47-50) with nothing downstream
C16_NoRowsIsNotAnError ==
    (hpc = "done" /\ homeQuery = "rows" /\ LocationQuery(homeLinks) = <<>>) =>
        /\ homeRet = [locations |-> <<>>, err |-> NilErr]
        /\ pc \in {"discover", "exit"}
        /\ NothingDownstream

\* the query returned no row and the run has ended
C16_Witness ==
    /\ homeQuery = "rows"
    /\ homeLinks = <<>>
    /\ homeRet = [locations |-> <<>>, err |-> NilErr]
    /\ pc = "exit"
    /\ NothingDownstream

\* C17: when navigation or the query failed, ScrapeHomepageLocations has
\* returned an error, and the driver is at the call or has ended by log.Fatal,
\* with nothing downstream; no step is taken after log.Fatal
C17_DiscoveryErrorIsFatal ==
    /\ [](homeQuery \in {"failed", "malformed"} =>
            /\ homeRet.err # NilErr
            /\ homeRet.locations = <<>>
            /\ pc \in {"discover", "fatal"}
            /\ NothingDownstream)
    /\ [][pc # "fatal"]_vars

\* the query failed on a homepage that shows locations, and the run has ended
C17_Witness ==
    /\ homeQuery = "failed"
    /\ homeLinks # <<>>
    /\ homeRet.err = ErrHomepage
    /\ pc = "fatal"
    /\ NothingDownstream

(***************************************************************************)
(* The keys of the detail results and of the merge.                        *)
(***************************************************************************)
\* the positions in urls of the canonical URL of a listing
RequestsFor(listing) ==
    {k \in 1..Len(mainUrls) : mainUrls[k] = CanonicalOf[listing.URL]}

\* the DetailResult of the k-th URL handed to ScrapeDetailsWithWorkers is
\* there and has no error
Fetched(k) ==
    /\ tasks[k] \in DOMAIN detailResults
    /\ detailResults[tasks[k]].Error = NilErr

\* C18: after the merge, every URL handed to ScrapeDetailsWithWorkers is the
\* canonical URL of a listing, every listing with a URL had its canonical URL
\* handed over, and every listing whose canonical URL was fetched with
\* success carries the bedrooms, bathrooms and guests of that DetailResult
C18_SameKeys ==
    pc \in {"save", "saving", "done"} =>
        /\ \A k \in 1..Len(mainUrls) :
              \E i \in 1..Len(allRawListings) : k \in RequestsFor(allRawListings[i])
        /\ \A i \in 1..Len(allRawListings) :
              allRawListings[i].URL # <<>> =>
                 /\ RequestsFor(allRawListings[i]) # {}
                 /\ \A k \in RequestsFor(allRawListings[i]) :
                       Fetched(k) =>
                          /\ allRawListings[i].Bedrooms = detailResults[tasks[k]].Bedrooms
                          /\ allRawListings[i].Bathrooms = detailResults[tasks[k]].Bathrooms
                          /\ allRawListings[i].Guests = detailResults[tasks[k]].Guests

(***************************************************************************)
(* The place of the upserts in a run.                                      *)
(***************************************************************************)
\* a call of InsertListing is in progress
Inserting == svpc = "insert"

\* the concurrent phase is over: ScrapeDetailsWithWorkers has returned and no
\* worker is processing
PoolOver == poolpc = "returned" /\ ~PoolBusy

\* C21: a call of InsertListing is in progress, or has been made, only when
\* ScrapeDetailsWithWorkers has returned and no worker is processing; a call
\* begins only when none is in progress and those of the records before it
\* have returned, and every step completes at most one call
C21_UpsertsAfterPoolOneByOne ==
    /\ [](Inserting \/ upsertLog # <<>> => PoolOver)
    /\ [][~Inserting /\ Inserting' =>
             /\ upsertLog' = upsertLog
             /\ Len(upsertLog) < svIdx
             /\ PoolOver]_vars
    /\ [][upsertLog' # upsertLog =>
             /\ Inserting /\ ~Inserting'
             /\ Len(upsertLog') = Len(upsertLog) + 1
             /\ PoolOver]_vars

\* the second of several upserts is in progress after a pool of four URLs in
\* which one was retried
C21_Witness ==
    /\ Inserting
    /\ Len(upsertLog) = 1
    /\ Len(svInput) >= 3
    /\ Len(tasks) = 4
    /\ \E i \in 1..Len(tasks) : attempts[i] = 2
    /\ PoolOver

(***************************************************************************)
(* The browser sessions of discovery and listing extraction.               *)
(***************************************************************************)
\* the actions that load a page
PageLoads == {"navigate", "click"}

\* the positions of the action a in what was run on a session
Runs(ev, a) == {i \in 1..Len(ev) : ev[i] = a}

\* C22: on every session the marker removal ran at most once; where a page was
\* loaded it ran exactly once, as the first action of the session; and it never
\* ran after a page load
C22_MarkerOnceBeforeFirstLoad ==
    \A k \in 1..Len(sessions) :
        LET ev == sessions[k].events
        IN  /\ Cardinality(Runs(ev, "marker")) <= 1
            /\ (\E i \in 1..Len(ev) : ev[i] \in PageLoads) => Runs(ev, "marker") = {1}
            /\ \A i, j \in 1..Len(ev) :
                  (i < j /\ ev[i] \in PageLoads) => ev[j] # "marker"

\* a listing session that loaded two result pages, the second by the next
\* control, and was released
C22_Witness ==
    \E k \in 1..Len(sessions) :
        /\ sessions[k].op = "listings"
        /\ sessions[k].events = <<"marker", "navigate", "click", "cancelCtx", "cancelAlloc">>

\* the operation that made the k-th session has returned
SessionReturned(k) ==
    \/ k < Len(sessions)
    \/ sessions[k].op = "home" /\ hpc = "done"
    \/ sessions[k].op = "listings" /\ spc \in {"done", "idle"}

\* the page context was cancelled, then the allocator, once each and last
ReleasedInOrder(ev) ==
    /\ Len(ev) >= 2
    /\ Runs(ev, "cancelCtx") = {Len(ev) - 1}
    /\ Runs(ev, "cancelAlloc") = {Len(ev)}

\* C23: the session of every operation that has returned, with or without an
\* error, was released: its page context was cancelled and then its allocator
C23_SessionsReleased ==
    \A k \in 1..Len(sessions) :
        SessionReturned(k) => ReleasedInOrder(sessions[k].events)

\* discovery has returned, the first location failed to load before its
\* browser started, the second was extracted: all three sessions are released
C23_Witness ==
    /\ Len(outcomes) = 2
    /\ spc = "idle"
    /\ outcomes[1].err = ErrFirstPage
    /\ outcomes[2].err = NilErr
    /\ Len(sessions) = 3
    /\ sessions[2].events = Cancel
    /\ \A k \in 1..3 : ReleasedInOrder(sessions[k].events)

\* the k-th session holds a resource: no cancel has run on it
Live(k) == Runs(sessions[k].events, "cancelCtx") \cup
           Runs(sessions[k].events, "cancelAlloc") = {}

\* C24: discovery has the first session and every call of ScrapeListings one
\* of its own; every session but the last is released, so at most one is
\* live; and ScrapeListings is called for a location only when the calls for
\* the locations before it have returned and their sessions are released
C24_OneSessionAtATime ==
    /\ [](/\ Len(sessions) = 1 + Len(outcomes) + (IF spc = "idle" THEN 0 ELSE 1)
          /\ \A k \in 1..Len(sessions) :
                sessions[k].op = (IF k = 1 THEN "home" ELSE "listings")
          /\ \A k \in 1..(Len(sessions) - 1) : ~Live(k)
          /\ Cardinality({k \in 1..Len(sessions) : Live(k)}) <= 1)
    /\ [][spc = "idle" /\ spc' = "load" =>
             /\ Len(outcomes) = locIdx - 1
             /\ hpc = "done"
             /\ \A k \in 1..Len(sessions) : ~Live(k)
             /\ Len(sessions') = Len(sessions) + 1]_vars

\* the third location is being extracted on the fourth session, the only one
\* live
C24_Witness ==
    /\ locIdx = 3
    /\ spc = "extract"
    /\ Len(sessions) = 4
    /\ Live(4)
    /\ \A k \in 1..3 : ~Live(k)

(***************************************************************************)
(* The writers of the pool's state.                                        *)
(***************************************************************************)
\* the workers that move in a step
Moved == {w \in DOMAIN wk : wk'[w] # wk[w]}

\* the tasks whose counters change in a step
Touched == {i \in 1..Len(tasks) : attempts'[i] # attempts[i] \/ produced'[i] # produced[i]}

\* C25: while the pool runs, a step that writes the results map is a step of
\* the collector: no worker moves in it and it puts the DetailResult it
\* received, the oldest one sent, into the map; a step of a worker moves
\* that worker only, and changes the retry and result counters of no task but
\* the one this worker holds
C25_SingleWriter ==
    /\ [][(poolpc = "running" /\ results' # results) =>
             /\ Moved = {}
             /\ resultsCh # <<>>
             /\ results' = PutResult(results, Head(resultsCh))
             /\ resultsCh' = Tail(resultsCh)]_vars
    /\ [][poolpc = "running" =>
             /\ Cardinality(Moved) <= 1
             /\ \A i \in Touched : \E w \in Moved : wk[w].task = i]_vars

\* a worker holds a task while the collector has written one entry and
\* the result of another worker waits for it
C25_Witness ==
    /\ \E w \in DOMAIN wk : wk[w].st = "run"
    /\ Cardinality(DOMAIN results) = 1
    /\ resultsCh # <<>>
    /\ Head(resultsCh).URL \notin DOMAIN results

(***************************************************************************)
(* Cancellation of the context of ScrapeDetailsWithWorkers.                *)
(***************************************************************************)
\* C26: once the context is cancelled no attempt is made on any URL, a URL
\* that was in its retry loop ends with the context's error instead of its
\* remaining retries, every task still produces one DetailResult, and the call
\* returns
C26_CancelStopsRetries ==
    /\ [][ctxDone => attempts' = attempts]_vars
    /\ [][(ctxDone /\ produced' # produced) =>
             /\ resultsCh' # <<>>
             /\ resultsCh'[Len(resultsCh')].Error = ErrCancelled]_vars
    /\ [](poolpc = "returned" => AllProducedOnce)
    /\ ctxDone ~> (poolpc = "returned")

\* the call has returned after a cancellation that came when a URL with
\* failing attempts had made one attempt and had retries left: it made no
\* other attempt and has the context's error
C26_Witness ==
    /\ poolpc = "returned"
    /\ ctxDone
    /\ \E i \in 1..Len(tasks) :
          /\ attempts[i] = 1
          /\ FailuresOf(tasks[i]) >= 1
          /\ results[tasks[i]].Error = ErrCancelled
    /\ \E i \in 1..Len(tasks) : results[tasks[i]].Error = NilErr

(***************************************************************************)
(* The merge of the detail results into the listings.                      *)
(***************************************************************************)
\* the DetailResult a requested URL ends with: it loads within MaxRetries
\* attempts, or it is a failure with zero counts
FinalDetail(url) ==
    IF FailuresOf(url) < cfg.MaxRetries
    THEN [URL |-> url, Bedrooms |-> DetailPage(url).Bedrooms,
          Bathrooms |-> DetailPage(url).Bathrooms, Guests |-> DetailPage(url).Guests,
          Error |-> NilErr]
    ELSE [URL |-> url, Bedrooms |-> 0, Bathrooms |-> 0, Guests |-> 0,
          Error |-> ErrDetail]

\* the set of DetailResults of a call, as a map: it is made of the requested
\* URLs and their pages, not of workers or of an order
FinalDetails(urls) ==
    [u \in {urls[i] : i \in 1..Len(urls)} |-> FinalDetail(u)]

\* the key the merge looks a listing up by
MergeKey(listing) ==
    IF listing.URL = <<>> THEN <<>> ELSE CanonicalOf[listing.URL]

\* a listing with the counts of the DetailResult of its key, when the set has
\* one without error
MergedWith(listing, details) ==
    IF MergeKey(listing) \in DOMAIN details
            /\ details[MergeKey(listing)].Error = NilErr
    THEN [listing EXCEPT !.Bedrooms = details[MergeKey(listing)].Bedrooms,
                         !.Bathrooms = details[MergeKey(listing)].Bathrooms,
                         !.Guests = details[MergeKey(listing)].Guests]
    ELSE listing

C29_CounterFollowsBrowser ==
    /\ spc = "extract" => page = 1 + nAdvance
    /\ \A i \in 1..Len(pageLog) : pageLog[i].page = pageLog[i].browser
    /\ \A i, j \in 1..Len(pageLog) :
          i # j => pageLog[i].browser # pageLog[j].browser

(***************************************************************************)
(* The error of ScrapeListings.                                            *)
(***************************************************************************)
\* the first page did not load: the loop was not entered
FirstPageFailed == page = 0

\* the call ended at a failure after the first page: a card query, the check
\* for the next control, the click or the wait
LaterFailure ==
    \/ stop \in {"checkerr", "clickerr", "waiterr"}
    \/ \E i \in 1..Len(pageLog) : ~pageLog[i].ok

\* C30: the call returns an error if and only if the first page failed to
\* load, and then it returns no listings; a call that met a failure after the
\* first page returns a nil error and the listings collected so far
C30_ErrorIffFirstPageFails ==
    spc = "done" =>
        /\ scrapeRet.err # NilErr <=> FirstPageFailed
        /\ FirstPageFailed <=> stop = "loaderr"
        /\ FirstPageFailed => scrapeRet.listings = <<>> /\ pageLog = <<>>
        /\ LaterFailure =>
              /\ ~FirstPageFailed
              /\ scrapeRet.err = NilErr
              /\ scrapeRet.listings = allListings
              /\ scrapeRet.listings = LoggedListings(pageLog)

\* a call that had a failed card query and then a failed click has returned
\* the listings of its other page without an error
C30_Witness ==
    /\ spc = "done"
    /\ stop = "clickerr"
    /\ \E i \in 1..Len(pageLog) : ~pageLog[i].ok
    /\ scrapeRet.listings # <<>>
    /\ scrapeRet.err = NilErr

(***************************************************************************)
(* The order of filtering and truncation in page extraction.               *)
(***************************************************************************)
\* the places, among the rows of a query, of the cards with a title and a URL
ValidPlaces(rows) ==
    {k \in 1..Len(rows) : CleanText(rows[k].title) # <<>> /\ rows[k].url # <<>>}

\* the place of the n-th card with a title and a URL
NthValidPlace(rows, n) ==
    CHOOSE k \in ValidPlaces(rows) :
        Cardinality({j \in ValidPlaces(rows) : j <= k}) = n

\* the places of a page the browser's query returns: the first 20
QueriedPlaces(loc, b) ==
    {k \in 1..Len(site[loc][b]) : k <= 20}

\* C31: cards without a title or a URL are dropped before the cut to
\* PropertiesPerPage: when the first 20 cards of a page hold at least
\* PropertiesPerPage cards with both, the page gives exactly the first
\* PropertiesPerPage of these, in card order, and no slot goes to a card
\* without a title or a URL
C31_FilterBeforeLimit ==
    \A i \in 1..Len(pageLog) :
        pageLog[i].ok =>
            LET cards == site[locationURL][pageLog[i].browser]
                rows  == [k \in QueriedPlaces(locationURL, pageLog[i].browser) |-> cards[k]]
                kept  == pageLog[i].listings
            IN  Cardinality(ValidPlaces(rows)) >= cfg.PropertiesPerPage =>
                    /\ Len(kept) = cfg.PropertiesPerPage
                    /\ \A n \in 1..Len(kept) :
                          /\ kept[n].URL = rows[NthValidPlace(rows, n)].url
                          /\ kept[n].Title = CleanText(rows[NthValidPlace(rows, n)].title)
                          /\ kept[n].Price = CleanText(rows[NthValidPlace(rows, n)].price)
                          /\ kept[n].Title # <<>>
                          /\ kept[n].URL # <<>>

\* a page of 21 cards, 18 of the first 20 without a title, has given its two
\* cards with a title and a URL, the second one from place 20
C31_Witness ==
    /\ cfg.PropertiesPerPage = 2
    /\ \E i \in 1..Len(pageLog) :
          /\ pageLog[i].ok
          /\ site[locationURL][pageLog[i].browser] = PageOfTwentyOne
          /\ Len(pageLog[i].listings) = 2
          /\ pageLog[i].listings[2].URL = CardB.url

(***************************************************************************)
(* What the merge leaves alone.                                            *)
(***************************************************************************)
\* the canonical URL of the listing has no DetailResult, or one with an error
NoDetail(listing) ==
    \/ MergeKey(listing) \notin DOMAIN detailResults
    \/ detailResults[MergeKey(listing)].Error # NilErr

\* the fields page extraction filled in
SameSummary(a, b) ==
    /\ a.Title = b.Title
    /\ a.Price = b.Price
    /\ a.Location = b.Location
    /\ a.Rating = b.Rating
    /\ a.URL = b.URL

\* C32: after the merge a listing without a DetailResult, or with one that
\* carries an error, has 0 bedrooms, bathrooms and guests; the listings are
\* those collected, as many and in the same order, with their title, price,
\* location, rating and URL unchanged
C32_MergeFrame ==
    pc \in {"save", "saving", "done"} =>
        /\ Len(allRawListings) = Len(CollectedFrom(outcomes))
        /\ \A i \in 1..Len(allRawListings) :
              /\ SameSummary(allRawListings[i], CollectedFrom(outcomes)[i])
              /\ NoDetail(allRawListings[i]) =>
                    /\ allRawListings[i].Bedrooms = 0
                    /\ allRawListings[i].Bathrooms = 0
                    /\ allRawListings[i].Guests = 0

\* the merge has run on listings of which one has no DetailResult under its
\* canonical URL, one has a DetailResult with an error, and one, found under a
\* URL with a query string, got its counts
C32_Witness ==
    /\ pc = "save"
    /\ \E i, j, k \in 1..Len(allRawListings) :
          /\ MergeKey(allRawListings[i]) \notin DOMAIN detailResults
          /\ allRawListings[i].Guests = 0
          /\ MergeKey(allRawListings[j]) \in DOMAIN detailResults
          /\ detailResults[MergeKey(allRawListings[j])].Error # NilErr
          /\ allRawListings[j].Guests = 0
          /\ allRawListings[k].URL = URLRoom1Query
          /\ allRawListings[k].Guests = DetailPage(URLRoom1).Guests

(***************************************************************************)
(* Listings of one call of NormalizeAndSave that share a canonical URL.    *)
(***************************************************************************)
\* the calls of InsertListing that succeeded
SucceededCalls == {k \in 1..Len(upsertLog) : upsertLog[k].err = NilErr}

\* the successful calls made with a URL
SucceededFor(url) == {k \in SucceededCalls : upsertLog[k].listing.URL = url}

\* the last of a non-empty set of calls
LastOf(calls) == CHOOSE k \in calls : \A j \in calls : j <= k

\* the row holds the values of the record
HoldsValues(r, listing) ==
    /\ r.title = listing.Title
    /\ r.price = listing.Price
    /\ r.location = listing.Location
    /\ r.rating = listing.Rating
    /\ r.bedrooms = listing.Bedrooms
    /\ r.bathrooms = listing.Bathrooms
    /\ r.guests = listing.Guests

\* C33: in one call on an empty table, every listing whose upsert succeeded
\* counts in the returned count, listings of one canonical URL included, while
\* the table holds one row per URL, with the values of the last listing of
\* that URL, in input order, whose upsert succeeded; so the count is at least
\* the number of rows
C33_CountPerListingRowPerURL ==
    (svpc = "done" /\ svRet.err = NilErr) =>
        /\ [k \in 1..Len(upsertLog) |-> upsertLog[k].listing]
              = ValidRecords(svInput, Len(svInput))
        /\ svRet.count = Cardinality(SucceededCalls)
        /\ Cardinality(table)
              = Cardinality({upsertLog[k].listing.URL : k \in SucceededCalls})
        /\ svRet.count >= Cardinality(table)
        /\ \A k \in SucceededCalls :
              LET url == upsertLog[k].listing.URL
              IN  /\ Cardinality(RowsOf(table, url)) = 1
                  /\ \A r \in RowsOf(table, url) :
                        HoldsValues(r, upsertLog[LastOf(SucceededFor(url))].listing)

\* room 1 was given twice, with different titles and prices, then another
\* room: three listings counted, two rows, room 1 with the later values
C33_Witness ==
    /\ svpc = "done"
    /\ svInput = <<ToRawListing(CardA), ToRawListing(CardB), ToRawListing(CardC)>>
    /\ svRet = [count |-> 3, err |-> NilErr]
    /\ Cardinality(table) = 2
    /\ \E r \in table : r.url = URLRoom1 /\ r.title = <<"B">>

(***************************************************************************)
(* What an upsert of a stored URL leaves alone.                            *)
(***************************************************************************)
\* the rows of the other URLs
OtherRows(tbl, url) == {r \in tbl : r.url # url}

\* C34: a successful upsert of a URL that has a row returns the id of that
\* row, leaves the row's id, created_at and URL and every other row as they
\* were, adds no row, and gives the row the record's title, price, location,
\* rating, bedrooms, bathrooms and guests and a new updated_at
C34_UpsertFrame ==
    [][(UpsertDone /\ RowsOf(table, LastUpsert.listing.URL) # {}) =>
          LET u   == LastUpsert.listing.URL
              old == CHOOSE r \in table : r.url = u
          IN  /\ LastUpsert.id = old.id
              /\ OtherRows(table', u) = OtherRows(table, u)
              /\ Cardinality(table') = Cardinality(table)
              /\ \A r \in RowsOf(table', u) :
                    /\ r.id = old.id
                    /\ r.created_at = old.created_at
                    /\ r.updated_at > old.updated_at
                    /\ HoldsValues(r, LastUpsert.listing)
      ]_vars

\* room 1 and room 2 were stored, then room 1 was upserted with other values:
\* the call returned id 1, the row of room 1 has its id and created_at and the
\* new values, the row of room 2 is as it was stored
C34_Witness ==
    /\ Len(upsertLog) = 3
    /\ \A i \in 1..3 : upsertLog[i].err = NilErr
    /\ upsertLog[1].listing = StoredA
    /\ upsertLog[2].listing = StoredC
    /\ upsertLog[3].listing = StoredA2
    /\ upsertLog[3].id = upsertLog[1].id
    /\ \E r \in table :
          /\ r.url = URLRoom1
          /\ r.id = upsertLog[1].id
          /\ r.created_at < r.updated_at
          /\ HoldsValues(r, StoredA2)
    /\ \E r \in table :
          /\ r.url = URLRoom2
          /\ r.created_at = r.updated_at
          /\ HoldsValues(r, StoredC)

(***************************************************************************)
(* The error of NormalizeAndSave and the counts of the summary.            *)
(***************************************************************************)
\* NormalizeAndSave has been called by the driver
DriverSaves == pc \in {"saving", "done"}

\* C35: NormalizeAndSave returns an error exactly for the empty input, and
\* then it has called InsertListing not once and returns 0; on any other
\* input its error is nil, whatever the inserts did.  In the driver
\* totalProperties is the number of collected listings, and the count of
\* saved listings is between 0 and totalProperties
C35_SaveErrorAndCounts ==
    /\ svpc = "done" =>
          /\ svRet.err # NilErr <=> svInput = <<>>
          /\ svRet.err # NilErr => upsertLog = <<>> /\ svRet.count = 0
          /\ svRet.count >= 0
          /\ svRet.count <= Len(svInput)
    /\ totalProperties = Len(allRawListings)
    /\ DriverSaves =>
          /\ svInput = allRawListings
          /\ successCount >= 0
          /\ successCount <= totalProperties
          /\ svRet.count >= 0
          /\ svRet.count <= totalProperties

\* a run has ended in which every call of InsertListing failed: no error,
\* 0 saved of the listings collected
C35_Witness ==
    /\ pc = "done"
    /\ totalProperties >= 3
    /\ Len(upsertLog) = totalProperties
    /\ \A k \in 1..Len(upsertLog) : upsertLog[k].err = ErrInsert
    /\ svRet = [count |-> 0, err |-> NilErr]

(***************************************************************************)
(* Extracted listings and the validity check of NormalizeAndSave.          *)
(***************************************************************************)
\* C36: NormalizeURL gives the empty string for the empty input only; every
\* collected listing has a title and a URL; and in the driver NormalizeAndSave
\* skips none of them: while it is at listing k it has called InsertListing
\* for each of the k - 1 listings before, with the listing's title and a
\* non-empty URL, and at its return for all of them
C36_NoExtractedListingSkipped ==
    /\ upc \in {"once", "twice"} => (canon1 = <<>> <=> rawURL = <<>>)
    /\ \A i \in 1..Len(allRawListings) :
          allRawListings[i].Title # <<>> /\ allRawListings[i].URL # <<>>
    /\ DriverSaves =>
          /\ svpc \in {"loop", "insert"} => Len(upsertLog) = svIdx - 1
          /\ svpc = "done" => Len(upsertLog) = Len(allRawListings)
          /\ \A k \in 1..Len(upsertLog) :
                /\ upsertLog[k].listing.Title = allRawListings[k].Title
                /\ upsertLog[k].listing.URL # <<>>
                /\ upsertLog[k].listing.URL = CanonicalOf[allRawListings[k].URL]

\* a run has ended with InsertListing called for each of its listings, among
\* them one without a price and rating, one seen with a query string and one
\* whose link ends in two slashes
C36_Witness ==
    /\ pc = "done"
    /\ Len(upsertLog) = Len(allRawListings)
    /\ \E i, j, k \in 1..Len(upsertLog) :
          /\ allRawListings[i].URL = URLRoom1Query
          /\ upsertLog[i].listing.URL = URLRoom1
          /\ allRawListings[j].URL = URLRoom3Slashes
          /\ allRawListings[k].URL = URLRoom2
          /\ upsertLog[k].listing.Price = 0

(***************************************************************************)
(* Claims about GetAnalytics and getTopRated.                              *)
(***************************************************************************)
\* a call of GetAnalytics has returned an Analytics
AnalyticsReturned == anpc = "done" /\ anaRet.err = NilErr /\ Len(anaRet.analytics) = 1

RECURSIVE SumOfCounts(_, _)
\* the sum of counts[l] over the locations l of S
SumOfCounts(counts, S) ==
    IF S = {} THEN 0
    ELSE LET l == CHOOSE x \in S : TRUE
         IN  counts[l] + SumOfCounts(counts, S \ {l})

\* the places of listings that have the price
PlacesPriced(listings, price) == {i \in 1..Len(listings) : listings[i].Price = price}

\* C37: for a non-empty set of listings GetAnalytics returns TotalListings
\* equal to the number of listings, a MaxPrice and a MinPrice that bound every
\* price and are each the price of some listing, as MostExpensive the first
\* listing in input order whose price is MaxPrice, and counts per location
\* that sum to TotalListings; for an empty set it returns the zero Analytics,
\* with no MostExpensive.
C37_AnalyticsOfListings ==
    AnalyticsReturned =>
        LET a == anaRet.analytics[1]
            listings == dbListings
        IN  IF Len(listings) = 0
            THEN /\ a.TotalListings = 0
                 /\ a.AveragePrice.num = 0
                 /\ a.MaxPrice = 0
                 /\ a.MinPrice = 0
                 /\ a.MostExpensive = <<>>
                 /\ DOMAIN a.ListingsPerLocation = {}
                 /\ a.TopRated = <<>>
            ELSE /\ a.TotalListings = Len(listings)
                 /\ \A i \in 1..Len(listings) :
                        /\ a.MaxPrice >= listings[i].Price
                        /\ listings[i].Price >= a.MinPrice
                 /\ PlacesPriced(listings, a.MaxPrice) # {}
                 /\ PlacesPriced(listings, a.MinPrice) # {}
                 /\ a.MostExpensive =
                        <<listings[Least(PlacesPriced(listings, a.MaxPrice))]>>
                 /\ SumOfCounts(a.ListingsPerLocation, DOMAIN a.ListingsPerLocation)
                        = a.TotalListings
                 /\ \A l \in DOMAIN a.ListingsPerLocation :
                        a.ListingsPerLocation[l] =
                            Cardinality({i \in 1..Len(listings) : listings[i].Location = l})

\* six listings, the dearest price shared by the second and the fifth
C37_Witness ==
    /\ AnalyticsReturned
    /\ Len(dbListings) = 6
    /\ PlacesPriced(dbListings, 45000) = {2, 5}
    /\ anaRet.analytics[1].MostExpensive = <<dbListings[2]>>
    /\ anaRet.analytics[1].ListingsPerLocation["Tokyo"] = 2
    /\ Len(anaRet.analytics[1].TopRated) = 5

\* a call of getTopRated has returned
TopRatedReturned == anpc = "done" /\ anaRet.err = NilErr /\ Len(anaRet.analytics) = 0

\* the place of the row in listings (rows have distinct ids)
PlaceIn(listings, row) == CHOOSE i \in 1..Len(listings) : listings[i] = row

\* the rows of a slice
MembersOf(listings) == {listings[i] : i \in 1..Len(listings)}

\* what the claim says of the slice returned for listings and n
TopRatedOf(ret, listings, n) ==
    /\ Len(ret) = (IF n < Len(listings) THEN n ELSE Len(listings))
    /\ MembersOf(ret) \subseteq MembersOf(listings)
    /\ Cardinality(MembersOf(ret)) = Len(ret)
    /\ \A k \in 1..(Len(ret) - 1) : ret[k].Rating >= ret[k + 1].Rating
    /\ \A row \in MembersOf(ret) : \A out \in MembersOf(listings) \ MembersOf(ret) :
           /\ row.Rating >= out.Rating
           /\ row.Rating = out.Rating => PlaceIn(listings, row) < PlaceIn(listings, out)
    /\ \A j, k \in 1..Len(ret) :
           (j < k /\ ret[j].Rating = ret[k].Rating)
               => PlaceIn(listings, ret[j]) < PlaceIn(listings, ret[k])

\* C38: getTopRated(listings, n) returns min(n, len(listings)) listings in
\* non-increasing order of rating, every returned rating is at least the
\* rating of every listing left out, listings of equal rating keep their
\* input order, and the input sequence is not modified.
C38_TopRatedStableAndPure ==
    /\ [](TopRatedReturned => TopRatedOf(topRet, dbListings, topN))
    /\ [][CallGetTopRated => dbListings' = dbListings]_vars

\* three of six listings are asked for; the two rated 4.95 are returned in
\* input order after the one rated 4.98, which is last in the input, and the
\* input is as it was
C38_Witness ==
    /\ TopRatedReturned
    /\ topN = 3
    /\ Len(dbListings) = 6
    /\ dbListings[1].ID = 6
    /\ dbListings[3].ID = 2
    /\ dbListings[6].ID = 5
    /\ topRet = <<dbListings[6], dbListings[1], dbListings[3]>>

====
